---- MODULE Spec2Model ----
(***************************************************************************)
(* A model of the LOGOS-k core: the relation agent (core/relation.py), the *)
(* axiom registry (core/axiom.py), the event record (core/event.py), the   *)
(* FAIR keyword extraction (semantic_db/fair_encoder.py), the exports of   *)
(* semantic_db/serializer.py and the demo harness                          *)
(* (examples/test_lambda_genesis.py).                                      *)
(*                                                                         *)
(* Python floats are modelled as the binary64 numbers they are, with the   *)
(* rounding of each operation; Python str values that the code             *)
(* lower-cases, splits or sorts are modelled as sequences of Unicode code  *)
(* points.                                                                 *)
(***************************************************************************)
EXTENDS Integers, Sequences, FiniteSets, TLC

VARIABLES
    rels,       \* the OntologicalRelation objects, indexed by identity
    now,        \* the wall clock read by datetime.now()
    result,     \* the value returned by the last call on a relation
    axcall,     \* the last call on OntologicalAxioms and its outcome
    event,      \* an OntologicalEvent and the score computed for it
    nodes,      \* what context.graph.nodes(data=True) yields: <<name, attrs>>
    edges,      \* what context.graph.edges(data=True) yields: <<source, target, attrs>>
    blind_spots,\* context.blind_spots keys
    export,     \* the last artefact computed from the context
    files,      \* the file system: path -> the document written there
    dirs,       \* the file system: the directories that exist
    expcall,    \* the last export_cycle call and its outcome
    demo,       \* the demo harness: its position and what it has seen
    heap,       \* the nested objects FAIR/CARE metadata blocks refer to
    blocks,     \* the metadata blocks handed to callers so far
    metacall    \* the last call or change that touched a metadata block

relVars == <<rels, now, result>>
axVars  == <<axcall>>
evVars  == <<event>>
ctxVars == <<nodes, edges, blind_spots, export>>
expVars == <<files, dirs, expcall>>
demoVars == <<demo>>
metaVars == <<heap, blocks, metacall>>
vars    == <<rels, now, result, axcall, event, nodes, edges, blind_spots, export,
             files, dirs, expcall, demo, heap, blocks, metacall>>

\* Python's None, for an optional time, an optional number and an optional
\* string.
NoTime == -1
Unbounded == -1
None == "<None>"

----------------------------------------------------------------------------
(* Python float arithmetic: IEEE 754 binary64, every operation rounded to  *)
(* the nearest float, ties to the even one.  A float is                    *)
(* [neg, m, e] and stands for (-1)^neg * m * 2^e, where m is a natural     *)
(* number below 2^53, odd unless it is zero, written as its digits in base *)
(* 2^14, the least significant first (<<>> is zero).  Infinities, NaN and  *)
(* subnormal numbers are out of the model's reach.  The same record with a *)
(* longer m is a number that has not been rounded.                         *)

Abs(x) == IF x < 0 THEN -x ELSE x

\* The base of the digits: a digit holds 14 binary digits, a float 53.
BASE == 2^14

Digit(a, i) == IF i <= Len(a) THEN a[i] ELSE 0

\* a without its leading zeros
RECURSIVE BNorm(_)
BNorm(a) ==
    IF a = <<>> THEN <<>>
    ELSE IF a[Len(a)] = 0 THEN BNorm(SubSeq(a, 1, Len(a) - 1))
    ELSE a

\* the digits of the number whose digit sums are raw, with carry c coming in
RECURSIVE Carry(_, _)
Carry(raw, c) ==
    IF raw = <<>>
    THEN IF c = 0 THEN <<>> ELSE <<c % BASE>> \o Carry(<<>>, c \div BASE)
    ELSE LET v == Head(raw) + c
         IN  <<v % BASE>> \o Carry(Tail(raw), v \div BASE)

BFromInt(n) == Carry(<<>>, n)

RECURSIVE BToInt(_)
BToInt(a) == IF a = <<>> THEN 0 ELSE Head(a) + BASE * BToInt(Tail(a))

BAdd(a, b) ==
    LET n == IF Len(a) > Len(b) THEN Len(a) ELSE Len(b)
    IN  BNorm(Carry([i \in 1..n |-> Digit(a, i) + Digit(b, i)], 0))

\* a - b for a >= b
RECURSIVE Borrow(_, _, _, _)
Borrow(a, b, i, c) ==
    IF i > Len(a) THEN <<>>
    ELSE LET v == a[i] - Digit(b, i) - c
         IN  IF v < 0 THEN <<v + BASE>> \o Borrow(a, b, i + 1, 1)
             ELSE <<v>> \o Borrow(a, b, i + 1, 0)

BSub(a, b) == BNorm(Borrow(a, b, 1, 0))

\* -1, 0 or 1 as a is below, equal to or above b (neither has leading zeros)
RECURSIVE BCmpFrom(_, _, _)
BCmpFrom(a, b, i) ==
    IF i = 0 THEN 0
    ELSE IF a[i] < b[i] THEN -1
    ELSE IF a[i] > b[i] THEN 1
    ELSE BCmpFrom(a, b, i - 1)

BCmp(a, b) ==
    IF Len(a) < Len(b) THEN -1
    ELSE IF Len(a) > Len(b) THEN 1
    ELSE BCmpFrom(a, b, Len(a))

\* a * k for 0 <= k < 2^16
BMulSmall(a, k) == BNorm(Carry([i \in DOMAIN a |-> a[i] * k], 0))

\* the sum of a[i] * b[k + 1 - i] over the i from lo to hi
RECURSIVE Column(_, _, _, _, _)
Column(a, b, k, lo, hi) ==
    IF lo > hi THEN 0
    ELSE a[lo] * b[k + 1 - lo] + Column(a, b, k, lo + 1, hi)

\* a * b, for factors of at most seven digits
BMul(a, b) ==
    IF a = <<>> \/ b = <<>> THEN <<>>
    ELSE BNorm(Carry([k \in 1..(Len(a) + Len(b) - 1) |->
                         Column(a, b, k,
                                IF k + 1 - Len(b) > 1 THEN k + 1 - Len(b) ELSE 1,
                                IF k < Len(a) THEN k ELSE Len(a))], 0))

\* the quotient a \div d for 0 < d < 2^16, the digits from the top down
RECURSIVE DivSmallFrom(_, _, _, _)
DivSmallFrom(a, d, i, rem) ==
    IF i = 0 THEN <<>>
    ELSE LET cur == rem * BASE + a[i]
         IN  Append(DivSmallFrom(a, d, i - 1, cur % d), cur \div d)

BDivSmall(a, d) == BNorm(DivSmallFrom(a, d, Len(a), 0))

\* a * 2^s and a \div 2^s
BShl(a, s) ==
    IF a = <<>> \/ s = 0 THEN a
    ELSE [i \in 1..(s \div 14) |-> 0] \o BMulSmall(a, 2^(s % 14))

BShr(a, s) ==
    IF s = 0 THEN a
    ELSE IF s \div 14 >= Len(a) THEN <<>>
    ELSE BDivSmall(SubSeq(a, s \div 14 + 1, Len(a)), 2^(s % 14))

\* the number of binary digits of a
BitLen(a) ==
    IF a = <<>> THEN 0
    ELSE (Len(a) - 1) * 14
         + (CHOOSE n \in 1..14 : 2^(n - 1) <= a[Len(a)] /\ a[Len(a)] < 2^n)

\* the number of zero binary digits at the low end of the digit d # 0
DigitZeros(d) == CHOOSE n \in 0..13 : d % 2^n = 0 /\ (d \div 2^n) % 2 = 1

\* the place of the lowest digit of a # 0 that is not 0
LowDigit(a) == CHOOSE i \in DOMAIN a : a[i] # 0 /\ \A j \in 1..(i - 1) : a[j] = 0

\* the number of zero binary digits at the low end of a # 0
TrailingZeros(a) == (LowDigit(a) - 1) * 14 + DigitZeros(a[LowDigit(a)])

\* the largest q from lo to hi with d * q <= cur
RECURSIVE QDigit(_, _, _, _)
QDigit(cur, d, lo, hi) ==
    IF lo = hi THEN lo
    ELSE LET mid == (lo + hi + 1) \div 2
         IN  IF BCmp(BMulSmall(d, mid), cur) <= 0 THEN QDigit(cur, d, mid, hi)
             ELSE QDigit(cur, d, lo, mid - 1)

\* long division, one digit of a at a time, from digit i down, with the
\* digits qs of the quotient found and r left over so far:
\* <<the quotient, the remainder>>
RECURSIVE DivModFrom(_, _, _, _, _)
DivModDigit(a, d, i, cur, qs, q) ==
    DivModFrom(a, d, i - 1, BSub(cur, BMulSmall(d, q)), <<q>> \o qs)

DivModStep(a, d, i, cur, qs) ==
    DivModDigit(a, d, i, cur, qs, QDigit(cur, d, 0, BASE - 1))

DivModFrom(a, d, i, r, qs) ==
    IF i = 0 THEN <<BNorm(qs), r>>
    ELSE DivModStep(a, d, i, BNorm(<<a[i]>> \o r), qs)

\* <<q, a - q * d>> for the quotient q of a by the one digit d
DivModSmall(a, d, q) == <<q, BSub(a, BMulSmall(q, d))>>

\* <<a \div d, a % d>> for d # 0
BDivMod(a, d) ==
    IF Len(d) = 1 THEN DivModSmall(a, d[1], BDivSmall(a, d[1]))
    ELSE DivModFrom(a, d, Len(a), <<>>, <<>>)

FZero == [neg |-> FALSE, m |-> <<>>, e |-> 0]

\* m * 2^e for m # 0 with the z zero binary digits at the low end of m
\* moved into the exponent
Shifted(neg, m, e, z) == [neg |-> neg, m |-> BShr(m, z), e |-> e + z]

\* m * 2^e with m odd, or zero
Exact(neg, m, e) ==
    IF m = <<>> THEN FZero ELSE Shifted(neg, m, e, TrailingZeros(m))

\* q * 2^e or the next number up: up when what was cut off compares as c
\* (1: more, 0: equal, -1: less) with half of the last digit kept, a tie
\* going to the even one
RoundTie(neg, q, e, c) ==
    Exact(neg, IF c > 0 \/ (c = 0 /\ q[1] % 2 = 1) THEN BAdd(q, <<1>>) ELSE q, e)

\* m * 2^e cut to q, its binary digits above the lowest `over` ones
RoundCut(neg, m, e, over, q) ==
    RoundTie(neg, q, e + over,
             BCmp(BSub(m, BShl(q, over)), BShl(<<1>>, over - 1)))

RoundOver(neg, m, e, over) ==
    IF over <= 0 THEN Exact(neg, m, e)
    ELSE RoundCut(neg, m, e, over, BShr(m, over))

\* the float nearest to m * 2^e, a tie going to the even one
Round(neg, m, e) == RoundOver(neg, m, e, BitLen(m) - 53)

\* float(k) for an int k
FInt(k) == Round(k < 0, BFromInt(Abs(k)), 0)

\* -1, 0 or 1 as |x| is below, equal to or above |y|
CmpAbs(x, y) ==
    IF x.m = <<>> \/ y.m = <<>>
    THEN (IF x.m # <<>> THEN 1 ELSE IF y.m # <<>> THEN -1 ELSE 0)
    ELSE LET e0 == IF x.e < y.e THEN x.e ELSE y.e
         IN  IF BitLen(x.m) + x.e # BitLen(y.m) + y.e
             THEN (IF BitLen(x.m) + x.e < BitLen(y.m) + y.e THEN -1 ELSE 1)
             ELSE BCmp(BShl(x.m, x.e - e0), BShl(y.m, y.e - e0))

FNeg(x) == IF x.m = <<>> THEN x ELSE [x EXCEPT !.neg = ~x.neg]
FAbs(x) == [x EXCEPT !.neg = FALSE]

\* x < y
FLess(x, y) ==
    IF x.neg # y.neg THEN x.neg
    ELSE IF x.neg THEN CmpAbs(x, y) > 0
    ELSE CmpAbs(x, y) < 0

\* (-1)^xneg * mx * 2^e + (-1)^yneg * my * 2^e, not rounded
SumAligned(xneg, mx, yneg, my, e) ==
    IF xneg = yneg THEN [neg |-> xneg, m |-> BAdd(mx, my), e |-> e]
    ELSE IF BCmp(mx, my) = 0 THEN FZero
    ELSE IF BCmp(mx, my) > 0 THEN [neg |-> xneg, m |-> BSub(mx, my), e |-> e]
    ELSE [neg |-> yneg, m |-> BSub(my, mx), e |-> e]

\* x + y, not rounded, written with the exponent e, the smaller of the two
SumAt(x, y, e) ==
    SumAligned(x.neg, BShl(x.m, x.e - e), y.neg, BShl(y.m, y.e - e), e)

\* x + y, not rounded
Sum(x, y) ==
    IF x.m = <<>> THEN y
    ELSE IF y.m = <<>> THEN x
    ELSE SumAt(x, y, IF x.e < y.e THEN x.e ELSE y.e)

\* the float nearest to the number u
RoundNumber(u) == Round(u.neg, u.m, u.e)

\* x + y
FAdd(x, y) == RoundNumber(Sum(x, y))

\* x - y
FSub(x, y) == FAdd(x, FNeg(y))

\* x * y
FMul(x, y) == Round(x.neg # y.neg, BMul(x.m, y.m), x.e + y.e)

\* x / y for y # 0: the quotient to 55 binary digits and more, with one digit
\* below them that tells whether anything was left over
RoundSticky(neg, qr, e) ==
    Round(neg, BAdd(BMulSmall(qr[1], 2), IF qr[2] = <<>> THEN <<>> ELSE <<1>>), e)

Quotient(x, y, k) ==
    RoundSticky(x.neg # y.neg, BDivMod(BShl(x.m, k), y.m), x.e - y.e - k - 1)

FDiv(x, y) ==
    IF x.m = <<>> THEN FZero
    ELSE Quotient(x, y, 53 + 3 + BitLen(y.m) - BitLen(x.m))

\* min(x, y) and max(x, y), as Python's builtins choose: the first argument
\* unless the second is smaller (larger)
FMin(x, y) == IF FLess(y, x) THEN y ELSE x
FMax(x, y) == IF FLess(x, y) THEN y ELSE x

\* the float a decimal literal n/d is read as: the one nearest to n / d
Float(n, d) == FDiv(FInt(n), FInt(d))

\* The float literals of the sources: 0.0, 0.1, ..., 10.0.
Float_0_0 == FInt(0)
Float_0_1 == Float(1, 10)
Float_0_2 == Float(2, 10)
Float_0_3 == Float(3, 10)
Float_0_4 == Float(4, 10)
Float_0_5 == Float(5, 10)
Float_0_7 == Float(7, 10)
Float_0_8 == Float(8, 10)
Float_1_0 == FInt(1)
Float_10_0 == FInt(10)

----------------------------------------------------------------------------
(* OntologicalRelation (core/relation.py)                                  *)

\* The clock stops the model here; every call takes one unit of time.
MaxTime == 3
\* The number of relation objects the model holds.
MaxRelations == 3

BLIND_SPOT_LOSS == "loss of original context"
PHI_TRANSFORMATION == "transformation"

\* A meaning is the text and, before it, the identities of the relations it
\* was "transformed from", outermost first.
NoMeaning == [chain |-> <<>>, text |-> ""]

_infer_meaning(type) ==
    [chain |-> <<>>,
     text |-> CASE type = "Alpha"  -> "collapse of potency into actuality"
                [] type = "Lambda" -> "establishment of an ontological connection"
                [] type = "Sigma"  -> "synthesis of a new whole from parts"
                [] type = "Omega"  -> "return to source and extraction of an invariant"
                [] type = "Nabla"  -> "enrichment of context with an invariant"
                [] type = "Phi"    -> "dialogue with Ethos, recognition of the unknowable"
                [] OTHER           -> "ontological relation of its type"]

\* A relation as the dataclass constructor and __post_init__ leave it.
OntologicalRelation(id, source, target, type, meaning, certainty, lifespan, activation_count, phi_meta, spots, tension, active, t) ==
    [id |-> id, source |-> source, target |-> target, type |-> type,
     meaning |-> IF meaning = NoMeaning THEN _infer_meaning(type) ELSE meaning,
     certainty |-> certainty, created |-> t, last_activated |-> NoTime,
     lifespan |-> lifespan, activation_count |-> activation_count,
     phi_meta |-> phi_meta, blind_spots |-> spots,
     is_active |-> active, tension_level |-> tension,
     transformation_history |-> <<>>]

\* _update_certainty dividing by the window's size, 3, for len(recent)
_update_certainty_windowed(rel) ==
    IF rel.transformation_history = <<>> THEN rel
    ELSE LET h == rel.transformation_history
             recent == SubSeq(h, IF Len(h) > 3 THEN Len(h) - 2 ELSE 1, Len(h))
             stability == Float(Len(recent), 3)
         IN  [rel EXCEPT !.certainty =
                 FMin(Float_1_0, FAdd(FMul(rel.certainty, Float_0_8),
                                    FMul(stability, Float_0_2)))]

\* _update_certainty taking the stability share away (- for +)
_update_certainty_minus(rel) ==
    IF rel.transformation_history = <<>> THEN rel
    ELSE LET h == rel.transformation_history
             recent == SubSeq(h, IF Len(h) > 3 THEN Len(h) - 2 ELSE 1, Len(h))
             stability == Float(Len(recent), Len(recent))
         IN  [rel EXCEPT !.certainty =
                 FMin(Float_1_0, FSub(FMul(rel.certainty, Float_0_8),
                                    FMul(stability, Float_0_2)))]

_update_certainty(rel) ==
    IF rel.transformation_history = <<>> THEN rel
    ELSE LET h == rel.transformation_history
             recent == SubSeq(h, IF Len(h) > 3 THEN Len(h) - 2 ELSE 1, Len(h))
             stability == Float(Len(recent), Len(recent))
         IN  [rel EXCEPT !.certainty =
                 FMin(Float_1_0, FAdd(FMul(rel.certainty, Float_0_8),
                                    FMul(stability, Float_0_2)))]

\* getattr(context, 'name', 'unknown') if context else 'none'
context_snapshot(context) ==
    IF context = None THEN "none"
    ELSE IF context = "<unnamed>" THEN "unknown" ELSE context

\* activate testing for the crisis before the certainty is recomputed
activate_active_early_crisis(rel, t, context) ==
    LET r1 == [rel EXCEPT !.is_active = TRUE, !.last_activated = t,
                          !.activation_count = @ + 1]
        res == [relation_id |-> r1.id,
                type |-> r1.type, source |-> r1.source,
                target |-> r1.target, meaning |-> r1.meaning,
                timestamp |-> r1.last_activated,
                certainty |-> r1.certainty,
                tension_level |-> r1.tension_level,
                phi_context |-> r1.phi_meta,
                blind_spots |-> r1.blind_spots]
        \* _update_certainty reads only the length of the history
        entry0 == [timestamp |-> r1.last_activated,
                   activation_result |-> res,
                   context_snapshot |-> context_snapshot(context)]
        r2 == _update_certainty(
                [r1 EXCEPT !.transformation_history = Append(@, entry0)])
        crisis == FLess(r1.certainty, Float_0_3)
                  /\ FLess(Float_0_7, r2.tension_level)
        res2 == IF crisis
                THEN res @@ [omega_trigger |-> "relation crisis"]
                ELSE res
        \* the history entry holds the same dict object as the result
        n == Len(r2.transformation_history)
    IN  [rel |-> [r2 EXCEPT !.transformation_history[n].activation_result = res2],
         ret |-> res2]

\* activate on an active relation (the code after the is_active test): the
\* relation afterwards and the returned dict
activate_active(rel, t, context) ==
    LET r1 == [rel EXCEPT !.is_active = TRUE, !.last_activated = t,
                          !.activation_count = @ + 1]
        res == [relation_id |-> r1.id,
                type |-> r1.type, source |-> r1.source,
                target |-> r1.target, meaning |-> r1.meaning,
                timestamp |-> r1.last_activated,
                certainty |-> r1.certainty,
                tension_level |-> r1.tension_level,
                phi_context |-> r1.phi_meta,
                blind_spots |-> r1.blind_spots]
        \* _update_certainty reads only the length of the history
        entry0 == [timestamp |-> r1.last_activated,
                   activation_result |-> res,
                   context_snapshot |-> context_snapshot(context)]
        r2 == _update_certainty(
                [r1 EXCEPT !.transformation_history = Append(@, entry0)])
        crisis == FLess(r2.certainty, Float_0_3)
                  /\ FLess(Float_0_7, r2.tension_level)
        res2 == IF crisis
                THEN res @@ [omega_trigger |-> "relation crisis"]
                ELSE res
        \* the history entry holds the same dict object as the result
        n == Len(r2.transformation_history)
    IN  [rel |-> [r2 EXCEPT !.transformation_history[n].activation_result = res2],
         ret |-> res2]

\* activate without its is_active test
activate_unguarded(rel, t, context) == activate_active(rel, t, context)

\* activate(self, context)
activate(rel, t, context) ==
    IF ~rel.is_active
    THEN [rel |-> rel,
          ret |-> [error |-> "relation inactive", relation_id |-> rel.id]]
    ELSE activate_active(rel, t, context)

\* check_viability(self), called at time t; age / lifespan raises when the
\* lifespan is 0
check_viability(rel, t) ==
    LET age == FInt(t - rel.created)
        age_factor == IF rel.lifespan = Unbounded THEN Float_1_0
                      ELSE FMax(Float_0_0,
                                FSub(Float_1_0, FDiv(age, FInt(rel.lifespan))))
        activation_factor == FMin(Float_1_0,
                                  FDiv(FInt(rel.activation_count), Float_10_0))
        certainty_factor == rel.certainty
        tension_factor == FSub(Float_1_0, rel.tension_level)
        viability == FAdd(FAdd(FAdd(FMul(age_factor, Float_0_3),
                                    FMul(activation_factor, Float_0_2)),
                               FMul(certainty_factor, Float_0_3)),
                          FMul(tension_factor, Float_0_2))
    IN  IF rel.lifespan = 0
        THEN [rel |-> rel, ret |-> [raised |-> "ZeroDivisionError"]]
        ELSE [rel |-> rel,
              ret |-> [relation_id |-> rel.id, viability |-> viability,
                       age_seconds |-> age,
                       activations |-> rel.activation_count,
                       certainty |-> rel.certainty,
                       tension |-> rel.tension_level,
                       recommendation |-> IF FLess(Float_0_5, viability)
                                          THEN "retain" ELSE "deactivate"]]

\* Python's "x or y" on an optional string: None and "" are falsy
StrOr(x, y) == IF x = None \/ x = "" THEN y ELSE x

\* transform handing the successor the original's certainty undamped
transform_undamped(rel, newid, t, new_type, new_target) ==
    [rel |-> [rel EXCEPT !.transformation_history =
                             Append(@, [timestamp |-> t,
                                        transformation |->
                                            [from |-> rel.type,
                                             to |-> StrOr(new_type, rel.type),
                                             reason |-> "ontological evolution"]]),
                         !.is_active = FALSE],
     ret |-> OntologicalRelation(newid, rel.source, StrOr(new_target, rel.target),
                StrOr(new_type, rel.type),
                [chain |-> <<rel.id>> \o rel.meaning.chain, text |-> rel.meaning.text],
                rel.certainty, Unbounded, 0,
                rel.phi_meta \o <<PHI_TRANSFORMATION>>,
                rel.blind_spots \o <<BLIND_SPOT_LOSS>>,
                Float_0_0, TRUE, t)]

\* transform marking the original active (True for False)
transform_reviving(rel, newid, t, new_type, new_target) ==
    LET transformed ==
            OntologicalRelation(newid, rel.source, StrOr(new_target, rel.target),
                StrOr(new_type, rel.type),
                [chain |-> <<rel.id>> \o rel.meaning.chain, text |-> rel.meaning.text],
                FMul(rel.certainty, Float_0_8), Unbounded, 0,
                rel.phi_meta \o <<PHI_TRANSFORMATION>>,
                rel.blind_spots \o <<BLIND_SPOT_LOSS>>,
                Float_0_0, TRUE, t)
        entry == [timestamp |-> t,
                  transformation |-> [from |-> rel.type, to |-> transformed.type,
                                      reason |-> "ontological evolution"]]
    IN  [rel |-> [rel EXCEPT !.transformation_history = Append(@, entry),
                             !.is_active = TRUE],
         ret |-> transformed]

\* transform(self, new_type, new_target), called at time t; newid is the
\* identity the constructor draws for the successor
transform(rel, newid, t, new_type, new_target) ==
    LET transformed ==
            OntologicalRelation(newid, rel.source, StrOr(new_target, rel.target),
                StrOr(new_type, rel.type),
                [chain |-> <<rel.id>> \o rel.meaning.chain, text |-> rel.meaning.text],
                FMul(rel.certainty, Float_0_8), Unbounded, 0,
                rel.phi_meta \o <<PHI_TRANSFORMATION>>,
                rel.blind_spots \o <<BLIND_SPOT_LOSS>>,
                Float_0_0, TRUE, t)
        entry == [timestamp |-> t,
                  transformation |-> [from |-> rel.type, to |-> transformed.type,
                                      reason |-> "ontological evolution"]]
    IN  [rel |-> [rel EXCEPT !.transformation_history = Append(@, entry),
                             !.is_active = FALSE],
         ret |-> transformed]

\* format(x, ".2f"): the number of hundredths nearest to x, the even one of
\* two that are equally near
format_2f(x) ==
    LET n == BMulSmall(x.m, 100)
        whole == BShr(n, -x.e)
        c == BCmp(BSub(n, BShl(whole, -x.e)), BShl(<<1>>, -x.e - 1))
        hundredths == IF x.e >= 0 THEN BShl(n, x.e)
                      ELSE IF c > 0 \/ (c = 0 /\ Digit(whole, 1) % 2 = 1)
                      THEN BAdd(whole, <<1>>)
                      ELSE whole
    IN  IF x.neg THEN -BToInt(hundredths) ELSE BToInt(hundredths)

\* to_logos_expression(self)
to_logos_expression(rel) ==
    [rel |-> rel,
     ret |-> IF rel.type = "Lambda"
             THEN <<rel.type, rel.source, rel.target>>
             ELSE IF rel.type \in {"Sigma", "Omega", "Nabla", "Phi"}
             THEN <<rel.type, rel.source, rel.target,
                    [key |-> "meaning", value |-> rel.meaning],
                    [key |-> "certainty", hundredths |-> format_2f(rel.certainty)]>>
             ELSE <<"Alpha", rel.source, [key |-> "type", value |-> rel.type]>>]

\* The inputs the model draws.
Certainties == {Float_0_0, Float_0_5, Float_0_7, Float_1_0}
Tensions == {Float_0_0, Float_0_7, Float_0_8}
Lifespans == {0, 1, 5}
\* activation counters a relation is constructed with, besides the default
\* 0: one activation short of the ten that count in full, and beyond them
ActivationCounts == {9, 12}
\* <<certainty, tension_level, lifespan, is_active, activation_count>> of the
\* relation a run starts with: every certainty and tension for the defaults
\* of the others, the lifespans for two of them, a relation constructed
\* inactive, and the activation counters
Constructed ==
    (Certainties \X Tensions \X {Unbounded} \X {TRUE} \X {0})
    \cup ({Float_0_5, Float_1_0} \X {Float_0_7} \X Lifespans \X {TRUE} \X {0})
    \cup {<<Float_0_7, Float_0_0, Unbounded, FALSE, 0>>}
    \cup ({Float_0_5} \X {Float_0_7} \X {Unbounded, 5} \X {TRUE} \X ActivationCounts)
InitialBlindSpots == {<<"chaos">>}
Contexts == {"ctx"}
\* <<new_type, new_target>>
TransformArgs == {<<None, "">>, <<"Sigma", "c">>}

NoResult == [op |-> "none", self |-> 0, ret |-> [none |-> TRUE]]

Ids == 1..Len(rels)

\* r.activate(context)
Activate(r, context) ==
    /\ now < MaxTime
    /\ LET out == activate(rels[r], now, context)
       IN  /\ rels' = [rels EXCEPT ![r] = out.rel]
           /\ result' = [op |-> "activate", self |-> r, ret |-> out.ret]
    /\ now' = now + 1
    /\ UNCHANGED <<axVars, evVars, ctxVars, expVars, demoVars, metaVars>>

\* r(context): __call__ delegates to activate
Call(r, context) ==
    /\ now < MaxTime
    /\ LET out == activate(rels[r], now, context)
       IN  /\ rels' = [rels EXCEPT ![r] = out.rel]
           /\ result' = [op |-> "__call__", self |-> r, ret |-> out.ret]
    /\ now' = now + 1
    /\ UNCHANGED <<axVars, evVars, ctxVars, expVars, demoVars, metaVars>>

\* r.check_viability()
CheckViability(r) ==
    /\ now < MaxTime
    /\ LET out == check_viability(rels[r], now)
       IN  /\ rels' = [rels EXCEPT ![r] = out.rel]
           /\ result' = [op |-> "check_viability", self |-> r, ret |-> out.ret]
    /\ now' = now + 1
    /\ UNCHANGED <<axVars, evVars, ctxVars, expVars, demoVars, metaVars>>

\* r.transform(new_type, new_target); the successor joins the objects held
Transform(r, new_type, new_target) ==
    /\ now < MaxTime
    /\ Len(rels) < MaxRelations
    /\ LET out == transform(rels[r], Len(rels) + 1, now, new_type, new_target)
       IN  /\ rels' = Append([rels EXCEPT ![r] = out.rel], out.ret)
           /\ result' = [op |-> "transform", self |-> r, ret |-> out.ret]
    /\ now' = now + 1
    /\ UNCHANGED <<axVars, evVars, ctxVars, expVars, demoVars, metaVars>>

\* r.to_logos_expression()
ToLogosExpression(r) ==
    /\ now < MaxTime
    /\ LET out == to_logos_expression(rels[r])
       IN  /\ rels' = [rels EXCEPT ![r] = out.rel]
           /\ result' = [op |-> "to_logos_expression", self |-> r, ret |-> out.ret]
    /\ now' = now + 1
    /\ UNCHANGED <<axVars, evVars, ctxVars, expVars, demoVars, metaVars>>

\* time passes between calls
Tick ==
    /\ now < MaxTime
    /\ now' = now + 1
    /\ result' = NoResult
    /\ UNCHANGED <<rels, axVars, evVars, ctxVars, expVars, demoVars, metaVars>>

NextRel ==
    \/ \E r \in Ids, context \in Contexts : Activate(r, context)
    \/ \E r \in Ids : Call(r, None)
    \/ \E r \in Ids : CheckViability(r)
    \/ \E r \in Ids, a \in TransformArgs : Transform(r, a[1], a[2])
    \/ \E r \in Ids : ToLogosExpression(r)
    \/ Tick

----------------------------------------------------------------------------
(* Python str operations on sequences of code points.                      *)

\* str.isspace() of one character: what str.split() splits at
IsSpace(c) ==
    c \in (9..13) \cup (28..32) \cup {133, 160, 5760} \cup (8192..8202)
          \cup {8232, 8233, 8239, 8287, 12288}

\* The characters str.lower() changes, one for one: <<first, last, step,
\* offset>> stands for first, first + step, ..., last, each lowered by
\* adding offset (the interpreter's Unicode 14.0 tables).
LOWER_RUNS ==
    { <<65, 90, 1, 32>>, <<192, 214, 1, 32>>, <<216, 222, 1, 32>>,
      <<256, 302, 2, 1>>, <<306, 310, 2, 1>>, <<313, 327, 2, 1>>,
      <<330, 374, 2, 1>>, <<376, 376, 1, -121>>, <<377, 381, 2, 1>>,
      <<385, 385, 1, 210>>, <<386, 388, 2, 1>>, <<390, 390, 1, 206>>,
      <<391, 391, 1, 1>>, <<393, 394, 1, 205>>, <<395, 395, 1, 1>>,
      <<398, 398, 1, 79>>, <<399, 399, 1, 202>>, <<400, 400, 1, 203>>,
      <<401, 401, 1, 1>>, <<403, 403, 1, 205>>, <<404, 404, 1, 207>>,
      <<406, 406, 1, 211>>, <<407, 407, 1, 209>>, <<408, 408, 1, 1>>,
      <<412, 412, 1, 211>>, <<413, 413, 1, 213>>, <<415, 415, 1, 214>>,
      <<416, 420, 2, 1>>, <<422, 422, 1, 218>>, <<423, 423, 1, 1>>,
      <<425, 425, 1, 218>>, <<428, 428, 1, 1>>, <<430, 430, 1, 218>>,
      <<431, 431, 1, 1>>, <<433, 434, 1, 217>>, <<435, 437, 2, 1>>,
      <<439, 439, 1, 219>>, <<440, 440, 1, 1>>, <<444, 444, 1, 1>>,
      <<452, 452, 1, 2>>, <<453, 453, 1, 1>>, <<455, 455, 1, 2>>,
      <<456, 456, 1, 1>>, <<458, 458, 1, 2>>, <<459, 475, 2, 1>>,
      <<478, 494, 2, 1>>, <<497, 497, 1, 2>>, <<498, 500, 2, 1>>,
      <<502, 502, 1, -97>>, <<503, 503, 1, -56>>, <<504, 542, 2, 1>>,
      <<544, 544, 1, -130>>, <<546, 562, 2, 1>>, <<570, 570, 1, 10795>>,
      <<571, 571, 1, 1>>, <<573, 573, 1, -163>>, <<574, 574, 1, 10792>>,
      <<577, 577, 1, 1>>, <<579, 579, 1, -195>>, <<580, 580, 1, 69>>,
      <<581, 581, 1, 71>>, <<582, 590, 2, 1>>, <<880, 882, 2, 1>>,
      <<886, 886, 1, 1>>, <<895, 895, 1, 116>>, <<902, 902, 1, 38>>,
      <<904, 906, 1, 37>>, <<908, 908, 1, 64>>, <<910, 911, 1, 63>>,
      <<913, 929, 1, 32>>, <<931, 939, 1, 32>>, <<975, 975, 1, 8>>,
      <<984, 1006, 2, 1>>, <<1012, 1012, 1, -60>>, <<1015, 1015, 1, 1>>,
      <<1017, 1017, 1, -7>>, <<1018, 1018, 1, 1>>, <<1021, 1023, 1, -130>>,
      <<1024, 1039, 1, 80>>, <<1040, 1071, 1, 32>>, <<1120, 1152, 2, 1>>,
      <<1162, 1214, 2, 1>>, <<1216, 1216, 1, 15>>, <<1217, 1229, 2, 1>>,
      <<1232, 1326, 2, 1>>, <<1329, 1366, 1, 48>>, <<4256, 4293, 1, 7264>>,
      <<4295, 4295, 1, 7264>>, <<4301, 4301, 1, 7264>>,
      <<5024, 5103, 1, 38864>>, <<5104, 5109, 1, 8>>,
      <<7312, 7354, 1, -3008>>, <<7357, 7359, 1, -3008>>,
      <<7680, 7828, 2, 1>>, <<7838, 7838, 1, -7615>>, <<7840, 7934, 2, 1>>,
      <<7944, 7951, 1, -8>>, <<7960, 7965, 1, -8>>, <<7976, 7983, 1, -8>>,
      <<7992, 7999, 1, -8>>, <<8008, 8013, 1, -8>>, <<8025, 8031, 2, -8>>,
      <<8040, 8047, 1, -8>>, <<8072, 8079, 1, -8>>, <<8088, 8095, 1, -8>>,
      <<8104, 8111, 1, -8>>, <<8120, 8121, 1, -8>>, <<8122, 8123, 1, -74>>,
      <<8124, 8124, 1, -9>>, <<8136, 8139, 1, -86>>, <<8140, 8140, 1, -9>>,
      <<8152, 8153, 1, -8>>, <<8154, 8155, 1, -100>>, <<8168, 8169, 1, -8>>,
      <<8170, 8171, 1, -112>>, <<8172, 8172, 1, -7>>,
      <<8184, 8185, 1, -128>>, <<8186, 8187, 1, -126>>,
      <<8188, 8188, 1, -9>>, <<8486, 8486, 1, -7517>>,
      <<8490, 8490, 1, -8383>>, <<8491, 8491, 1, -8262>>,
      <<8498, 8498, 1, 28>>, <<8544, 8559, 1, 16>>, <<8579, 8579, 1, 1>>,
      <<9398, 9423, 1, 26>>, <<11264, 11311, 1, 48>>, <<11360, 11360, 1, 1>>,
      <<11362, 11362, 1, -10743>>, <<11363, 11363, 1, -3814>>,
      <<11364, 11364, 1, -10727>>, <<11367, 11371, 2, 1>>,
      <<11373, 11373, 1, -10780>>, <<11374, 11374, 1, -10749>>,
      <<11375, 11375, 1, -10783>>, <<11376, 11376, 1, -10782>>,
      <<11378, 11378, 1, 1>>, <<11381, 11381, 1, 1>>,
      <<11390, 11391, 1, -10815>>, <<11392, 11490, 2, 1>>,
      <<11499, 11501, 2, 1>>, <<11506, 11506, 1, 1>>, <<42560, 42604, 2, 1>>,
      <<42624, 42650, 2, 1>>, <<42786, 42798, 2, 1>>, <<42802, 42862, 2, 1>>,
      <<42873, 42875, 2, 1>>, <<42877, 42877, 1, -35332>>,
      <<42878, 42886, 2, 1>>, <<42891, 42891, 1, 1>>,
      <<42893, 42893, 1, -42280>>, <<42896, 42898, 2, 1>>,
      <<42902, 42920, 2, 1>>, <<42922, 42922, 1, -42308>>,
      <<42923, 42923, 1, -42319>>, <<42924, 42924, 1, -42315>>,
      <<42925, 42925, 1, -42305>>, <<42926, 42926, 1, -42308>>,
      <<42928, 42928, 1, -42258>>, <<42929, 42929, 1, -42282>>,
      <<42930, 42930, 1, -42261>>, <<42931, 42931, 1, 928>>,
      <<42932, 42946, 2, 1>>, <<42948, 42948, 1, -48>>,
      <<42949, 42949, 1, -42307>>, <<42950, 42950, 1, -35384>>,
      <<42951, 42953, 2, 1>>, <<42960, 42960, 1, 1>>, <<42966, 42968, 2, 1>>,
      <<42997, 42997, 1, 1>>, <<65313, 65338, 1, 32>>,
      <<66560, 66599, 1, 40>>, <<66736, 66771, 1, 40>>,
      <<66928, 66938, 1, 39>>, <<66940, 66954, 1, 39>>,
      <<66956, 66962, 1, 39>>, <<66964, 66965, 1, 39>>,
      <<68736, 68786, 1, 64>>, <<71840, 71871, 1, 32>>,
      <<93760, 93791, 1, 32>>, <<125184, 125217, 1, 34>> }

\* The cased characters (lower case, upper case or title case), as ranges.
CASED ==
    { <<65, 90>>, <<97, 122>>, <<170, 170>>, <<181, 181>>, <<186, 186>>,
      <<192, 214>>, <<216, 246>>, <<248, 442>>, <<444, 447>>, <<452, 659>>,
      <<661, 696>>, <<704, 705>>, <<736, 740>>, <<837, 837>>, <<880, 883>>,
      <<886, 887>>, <<890, 893>>, <<895, 895>>, <<902, 902>>, <<904, 906>>,
      <<908, 908>>, <<910, 929>>, <<931, 1013>>, <<1015, 1153>>,
      <<1162, 1327>>, <<1329, 1366>>, <<1376, 1416>>, <<4256, 4293>>,
      <<4295, 4295>>, <<4301, 4301>>, <<4304, 4346>>, <<4349, 4351>>,
      <<5024, 5109>>, <<5112, 5117>>, <<7296, 7304>>, <<7312, 7354>>,
      <<7357, 7359>>, <<7424, 7615>>, <<7680, 7957>>, <<7960, 7965>>,
      <<7968, 8005>>, <<8008, 8013>>, <<8016, 8023>>, <<8025, 8025>>,
      <<8027, 8027>>, <<8029, 8029>>, <<8031, 8061>>, <<8064, 8116>>,
      <<8118, 8124>>, <<8126, 8126>>, <<8130, 8132>>, <<8134, 8140>>,
      <<8144, 8147>>, <<8150, 8155>>, <<8160, 8172>>, <<8178, 8180>>,
      <<8182, 8188>>, <<8305, 8305>>, <<8319, 8319>>, <<8336, 8348>>,
      <<8450, 8450>>, <<8455, 8455>>, <<8458, 8467>>, <<8469, 8469>>,
      <<8473, 8477>>, <<8484, 8484>>, <<8486, 8486>>, <<8488, 8488>>,
      <<8490, 8493>>, <<8495, 8500>>, <<8505, 8505>>, <<8508, 8511>>,
      <<8517, 8521>>, <<8526, 8526>>, <<8544, 8575>>, <<8579, 8580>>,
      <<9398, 9449>>, <<11264, 11492>>, <<11499, 11502>>, <<11506, 11507>>,
      <<11520, 11557>>, <<11559, 11559>>, <<11565, 11565>>, <<42560, 42605>>,
      <<42624, 42653>>, <<42786, 42887>>, <<42891, 42894>>, <<42896, 42954>>,
      <<42960, 42961>>, <<42963, 42963>>, <<42965, 42969>>, <<42997, 42998>>,
      <<43000, 43002>>, <<43824, 43866>>, <<43868, 43880>>, <<43888, 43967>>,
      <<64256, 64262>>, <<64275, 64279>>, <<65313, 65338>>, <<65345, 65370>>,
      <<66560, 66639>>, <<66736, 66771>>, <<66776, 66811>>, <<66928, 66938>>,
      <<66940, 66954>>, <<66956, 66962>>, <<66964, 66965>>, <<66967, 66977>>,
      <<66979, 66993>>, <<66995, 67001>>, <<67003, 67004>>, <<67456, 67456>>,
      <<67459, 67461>>, <<67463, 67504>>, <<67506, 67514>>, <<68736, 68786>>,
      <<68800, 68850>>, <<71840, 71903>>, <<93760, 93823>>,
      <<119808, 119892>>, <<119894, 119964>>, <<119966, 119967>>,
      <<119970, 119970>>, <<119973, 119974>>, <<119977, 119980>>,
      <<119982, 119993>>, <<119995, 119995>>, <<119997, 120003>>,
      <<120005, 120069>>, <<120071, 120074>>, <<120077, 120084>>,
      <<120086, 120092>>, <<120094, 120121>>, <<120123, 120126>>,
      <<120128, 120132>>, <<120134, 120134>>, <<120138, 120144>>,
      <<120146, 120485>>, <<120488, 120512>>, <<120514, 120538>>,
      <<120540, 120570>>, <<120572, 120596>>, <<120598, 120628>>,
      <<120630, 120654>>, <<120656, 120686>>, <<120688, 120712>>,
      <<120714, 120744>>, <<120746, 120770>>, <<120772, 120779>>,
      <<122624, 122633>>, <<122635, 122654>>, <<125184, 125251>>,
      <<127280, 127305>>, <<127312, 127337>>, <<127344, 127369>> }

\* The case-ignorable characters, as ranges.
CASE_IGNORABLE ==
    { <<39, 39>>, <<46, 46>>, <<58, 58>>, <<94, 94>>, <<96, 96>>,
      <<168, 168>>, <<173, 173>>, <<175, 175>>, <<180, 180>>, <<183, 184>>,
      <<688, 879>>, <<884, 885>>, <<890, 890>>, <<900, 901>>, <<903, 903>>,
      <<1155, 1161>>, <<1369, 1369>>, <<1375, 1375>>, <<1425, 1469>>,
      <<1471, 1471>>, <<1473, 1474>>, <<1476, 1477>>, <<1479, 1479>>,
      <<1524, 1524>>, <<1536, 1541>>, <<1552, 1562>>, <<1564, 1564>>,
      <<1600, 1600>>, <<1611, 1631>>, <<1648, 1648>>, <<1750, 1757>>,
      <<1759, 1768>>, <<1770, 1773>>, <<1807, 1807>>, <<1809, 1809>>,
      <<1840, 1866>>, <<1958, 1968>>, <<2027, 2037>>, <<2042, 2042>>,
      <<2045, 2045>>, <<2070, 2093>>, <<2137, 2139>>, <<2184, 2184>>,
      <<2192, 2193>>, <<2200, 2207>>, <<2249, 2306>>, <<2362, 2362>>,
      <<2364, 2364>>, <<2369, 2376>>, <<2381, 2381>>, <<2385, 2391>>,
      <<2402, 2403>>, <<2417, 2417>>, <<2433, 2433>>, <<2492, 2492>>,
      <<2497, 2500>>, <<2509, 2509>>, <<2530, 2531>>, <<2558, 2558>>,
      <<2561, 2562>>, <<2620, 2620>>, <<2625, 2626>>, <<2631, 2632>>,
      <<2635, 2637>>, <<2641, 2641>>, <<2672, 2673>>, <<2677, 2677>>,
      <<2689, 2690>>, <<2748, 2748>>, <<2753, 2757>>, <<2759, 2760>>,
      <<2765, 2765>>, <<2786, 2787>>, <<2810, 2815>>, <<2817, 2817>>,
      <<2876, 2876>>, <<2879, 2879>>, <<2881, 2884>>, <<2893, 2893>>,
      <<2901, 2902>>, <<2914, 2915>>, <<2946, 2946>>, <<3008, 3008>>,
      <<3021, 3021>>, <<3072, 3072>>, <<3076, 3076>>, <<3132, 3132>>,
      <<3134, 3136>>, <<3142, 3144>>, <<3146, 3149>>, <<3157, 3158>>,
      <<3170, 3171>>, <<3201, 3201>>, <<3260, 3260>>, <<3263, 3263>>,
      <<3270, 3270>>, <<3276, 3277>>, <<3298, 3299>>, <<3328, 3329>>,
      <<3387, 3388>>, <<3393, 3396>>, <<3405, 3405>>, <<3426, 3427>>,
      <<3457, 3457>>, <<3530, 3530>>, <<3538, 3540>>, <<3542, 3542>>,
      <<3633, 3633>>, <<3636, 3642>>, <<3654, 3662>>, <<3761, 3761>>,
      <<3764, 3772>>, <<3782, 3782>>, <<3784, 3789>>, <<3864, 3865>>,
      <<3893, 3893>>, <<3895, 3895>>, <<3897, 3897>>, <<3953, 3966>>,
      <<3968, 3972>>, <<3974, 3975>>, <<3981, 3991>>, <<3993, 4028>>,
      <<4038, 4038>>, <<4141, 4144>>, <<4146, 4151>>, <<4153, 4154>>,
      <<4157, 4158>>, <<4184, 4185>>, <<4190, 4192>>, <<4209, 4212>>,
      <<4226, 4226>>, <<4229, 4230>>, <<4237, 4237>>, <<4253, 4253>>,
      <<4348, 4348>>, <<4957, 4959>>, <<5906, 5908>>, <<5938, 5939>>,
      <<5970, 5971>>, <<6002, 6003>>, <<6068, 6069>>, <<6071, 6077>>,
      <<6086, 6086>>, <<6089, 6099>>, <<6103, 6103>>, <<6109, 6109>>,
      <<6155, 6159>>, <<6211, 6211>>, <<6277, 6278>>, <<6313, 6313>>,
      <<6432, 6434>>, <<6439, 6440>>, <<6450, 6450>>, <<6457, 6459>>,
      <<6679, 6680>>, <<6683, 6683>>, <<6742, 6742>>, <<6744, 6750>>,
      <<6752, 6752>>, <<6754, 6754>>, <<6757, 6764>>, <<6771, 6780>>,
      <<6783, 6783>>, <<6823, 6823>>, <<6832, 6862>>, <<6912, 6915>>,
      <<6964, 6964>>, <<6966, 6970>>, <<6972, 6972>>, <<6978, 6978>>,
      <<7019, 7027>>, <<7040, 7041>>, <<7074, 7077>>, <<7080, 7081>>,
      <<7083, 7085>>, <<7142, 7142>>, <<7144, 7145>>, <<7149, 7149>>,
      <<7151, 7153>>, <<7212, 7219>>, <<7222, 7223>>, <<7288, 7293>>,
      <<7376, 7378>>, <<7380, 7392>>, <<7394, 7400>>, <<7405, 7405>>,
      <<7412, 7412>>, <<7416, 7417>>, <<7468, 7530>>, <<7544, 7544>>,
      <<7579, 7679>>, <<8125, 8125>>, <<8127, 8129>>, <<8141, 8143>>,
      <<8157, 8159>>, <<8173, 8175>>, <<8189, 8190>>, <<8203, 8207>>,
      <<8216, 8217>>, <<8228, 8228>>, <<8231, 8231>>, <<8234, 8238>>,
      <<8288, 8292>>, <<8294, 8303>>, <<8305, 8305>>, <<8319, 8319>>,
      <<8336, 8348>>, <<8400, 8432>>, <<11388, 11389>>, <<11503, 11505>>,
      <<11631, 11631>>, <<11647, 11647>>, <<11744, 11775>>, <<11823, 11823>>,
      <<12293, 12293>>, <<12330, 12333>>, <<12337, 12341>>, <<12347, 12347>>,
      <<12441, 12446>>, <<12540, 12542>>, <<40981, 40981>>, <<42232, 42237>>,
      <<42508, 42508>>, <<42607, 42610>>, <<42612, 42621>>, <<42623, 42623>>,
      <<42652, 42655>>, <<42736, 42737>>, <<42752, 42785>>, <<42864, 42864>>,
      <<42888, 42890>>, <<42994, 42996>>, <<43000, 43001>>, <<43010, 43010>>,
      <<43014, 43014>>, <<43019, 43019>>, <<43045, 43046>>, <<43052, 43052>>,
      <<43204, 43205>>, <<43232, 43249>>, <<43263, 43263>>, <<43302, 43309>>,
      <<43335, 43345>>, <<43392, 43394>>, <<43443, 43443>>, <<43446, 43449>>,
      <<43452, 43453>>, <<43471, 43471>>, <<43493, 43494>>, <<43561, 43566>>,
      <<43569, 43570>>, <<43573, 43574>>, <<43587, 43587>>, <<43596, 43596>>,
      <<43632, 43632>>, <<43644, 43644>>, <<43696, 43696>>, <<43698, 43700>>,
      <<43703, 43704>>, <<43710, 43711>>, <<43713, 43713>>, <<43741, 43741>>,
      <<43756, 43757>>, <<43763, 43764>>, <<43766, 43766>>, <<43867, 43871>>,
      <<43881, 43883>>, <<44005, 44005>>, <<44008, 44008>>, <<44013, 44013>>,
      <<64286, 64286>>, <<64434, 64450>>, <<65024, 65039>>, <<65043, 65043>>,
      <<65056, 65071>>, <<65106, 65106>>, <<65109, 65109>>, <<65279, 65279>>,
      <<65287, 65287>>, <<65294, 65294>>, <<65306, 65306>>, <<65342, 65342>>,
      <<65344, 65344>>, <<65392, 65392>>, <<65438, 65439>>, <<65507, 65507>>,
      <<65529, 65531>>, <<66045, 66045>>, <<66272, 66272>>, <<66422, 66426>>,
      <<67456, 67461>>, <<67463, 67504>>, <<67506, 67514>>, <<68097, 68099>>,
      <<68101, 68102>>, <<68108, 68111>>, <<68152, 68154>>, <<68159, 68159>>,
      <<68325, 68326>>, <<68900, 68903>>, <<69291, 69292>>, <<69446, 69456>>,
      <<69506, 69509>>, <<69633, 69633>>, <<69688, 69702>>, <<69744, 69744>>,
      <<69747, 69748>>, <<69759, 69761>>, <<69811, 69814>>, <<69817, 69818>>,
      <<69821, 69821>>, <<69826, 69826>>, <<69837, 69837>>, <<69888, 69890>>,
      <<69927, 69931>>, <<69933, 69940>>, <<70003, 70003>>, <<70016, 70017>>,
      <<70070, 70078>>, <<70089, 70092>>, <<70095, 70095>>, <<70191, 70193>>,
      <<70196, 70196>>, <<70198, 70199>>, <<70206, 70206>>, <<70367, 70367>>,
      <<70371, 70378>>, <<70400, 70401>>, <<70459, 70460>>, <<70464, 70464>>,
      <<70502, 70508>>, <<70512, 70516>>, <<70712, 70719>>, <<70722, 70724>>,
      <<70726, 70726>>, <<70750, 70750>>, <<70835, 70840>>, <<70842, 70842>>,
      <<70847, 70848>>, <<70850, 70851>>, <<71090, 71093>>, <<71100, 71101>>,
      <<71103, 71104>>, <<71132, 71133>>, <<71219, 71226>>, <<71229, 71229>>,
      <<71231, 71232>>, <<71339, 71339>>, <<71341, 71341>>, <<71344, 71349>>,
      <<71351, 71351>>, <<71453, 71455>>, <<71458, 71461>>, <<71463, 71467>>,
      <<71727, 71735>>, <<71737, 71738>>, <<71995, 71996>>, <<71998, 71998>>,
      <<72003, 72003>>, <<72148, 72151>>, <<72154, 72155>>, <<72160, 72160>>,
      <<72193, 72202>>, <<72243, 72248>>, <<72251, 72254>>, <<72263, 72263>>,
      <<72273, 72278>>, <<72281, 72283>>, <<72330, 72342>>, <<72344, 72345>>,
      <<72752, 72758>>, <<72760, 72765>>, <<72767, 72767>>, <<72850, 72871>>,
      <<72874, 72880>>, <<72882, 72883>>, <<72885, 72886>>, <<73009, 73014>>,
      <<73018, 73018>>, <<73020, 73021>>, <<73023, 73029>>, <<73031, 73031>>,
      <<73104, 73105>>, <<73109, 73109>>, <<73111, 73111>>, <<73459, 73460>>,
      <<78896, 78904>>, <<92912, 92916>>, <<92976, 92982>>, <<92992, 92995>>,
      <<94031, 94031>>, <<94095, 94111>>, <<94176, 94177>>, <<94179, 94180>>,
      <<110576, 110579>>, <<110581, 110587>>, <<110589, 110590>>,
      <<113821, 113822>>, <<113824, 113827>>, <<118528, 118573>>,
      <<118576, 118598>>, <<119143, 119145>>, <<119155, 119170>>,
      <<119173, 119179>>, <<119210, 119213>>, <<119362, 119364>>,
      <<121344, 121398>>, <<121403, 121452>>, <<121461, 121461>>,
      <<121476, 121476>>, <<121499, 121503>>, <<121505, 121519>>,
      <<122880, 122886>>, <<122888, 122904>>, <<122907, 122913>>,
      <<122915, 122916>>, <<122918, 122922>>, <<123184, 123197>>,
      <<123566, 123566>>, <<123628, 123631>>, <<125136, 125142>>,
      <<125252, 125259>>, <<127995, 127999>>, <<917505, 917505>>,
      <<917536, 917631>>, <<917760, 917999>> }

IsCased(c) == \E r \in CASED : r[1] <= c /\ c <= r[2]
IsCaseIgnorable(c) == \E r \in CASE_IGNORABLE : r[1] <= c /\ c <= r[2]

\* str.lower() of one character on its own: one code point, or two for the
\* dotted capital I (U+0130)
LowerChar(c) ==
    IF c = 304 THEN <<105, 775>>
    ELSE LET hit == {r \in LOWER_RUNS :
                        r[1] <= c /\ c <= r[2] /\ (c - r[1]) % r[3] = 0}
         IN  IF hit = {} THEN <<c>>
             ELSE <<c + (CHOOSE r \in hit : TRUE)[4]>>

\* A capital sigma at s[i] ends a word: the nearest character before it that
\* is not case-ignorable is cased, and the nearest one after it, if there is
\* one, is not.
FinalSigma(s, i) ==
    LET before == {j \in 1..(i - 1) : ~IsCaseIgnorable(s[j])}
        after == {j \in (i + 1)..Len(s) : ~IsCaseIgnorable(s[j])}
    IN  /\ before # {}
        /\ IsCased(s[CHOOSE j \in before : \A k \in before : k <= j])
        /\ \/ after = {}
           \/ ~IsCased(s[CHOOSE j \in after : \A k \in after : j <= k])

\* str.lower(): each character lowered, a capital sigma to the final small
\* sigma where it ends a word
RECURSIVE LowerFrom(_, _)
LowerFrom(s, i) ==
    IF i > Len(s) THEN <<>>
    ELSE (IF s[i] = 931 THEN <<IF FinalSigma(s, i) THEN 962 ELSE 963>>
          ELSE LowerChar(s[i]))
         \o LowerFrom(s, i + 1)

Lower(s) == LowerFrom(s, 1)

\* str.split(): the maximal runs of non-space characters, in order
RECURSIVE SplitFrom(_, _, _)
SplitFrom(s, i, word) ==
    IF i > Len(s)
    THEN IF word = <<>> THEN <<>> ELSE <<word>>
    ELSE IF IsSpace(s[i])
         THEN (IF word = <<>> THEN <<>> ELSE <<word>>) \o SplitFrom(s, i + 1, <<>>)
         ELSE SplitFrom(s, i + 1, Append(word, s[i]))

Split(s) == SplitFrom(s, 1, <<>>)

\* str.replace(old, new) for single characters
ReplaceChar(s, old, new) == [i \in 1..Len(s) |-> IF s[i] = old THEN new ELSE s[i]]

\* s < t in Python's str order: lexicographic by code point
RECURSIVE StrLess(_, _)
StrLess(s, t) ==
    IF t = <<>> THEN FALSE
    ELSE IF s = <<>> THEN TRUE
    ELSE IF Head(s) # Head(t) THEN Head(s) < Head(t)
    ELSE StrLess(Tail(s), Tail(t))

\* x put at its place in the sorted list seq
Insert(x, seq) ==
    LET k == Cardinality({i \in DOMAIN seq : StrLess(seq[i], x)})
    IN  SubSeq(seq, 1, k) \o <<x>> \o SubSeq(seq, k + 1, Len(seq))

\* sorted(S) of a set of strings
RECURSIVE Sorted(_)
Sorted(S) ==
    IF S = {} THEN <<>>
    ELSE LET x == CHOOSE y \in S : TRUE
         IN  Insert(x, Sorted(S \ {x}))

Range(f) == {f[i] : i \in DOMAIN f}

----------------------------------------------------------------------------
(* OntologicalAxioms (core/axiom.py)                                       *)

MAX_ENTITIES == 1000
MAX_RECURSION_DEPTH == 50
MAX_ANALYSIS_DEPTH == 15
MAX_PHI_CALLS_PER_EXPRESSION == 3

\* "vsegda", "nikogda", "edinstvennyj", "edinstvenno", "absolyutno",
\* "neprelozhnyj", "neosporimo", in Cyrillic
ABSOLUTISM_KEYWORDS ==
    { <<1074, 1089, 1077, 1075, 1076, 1072>>,
      <<1085, 1080, 1082, 1086, 1075, 1076, 1072>>,
      <<1077, 1076, 1080, 1085, 1089, 1090, 1074, 1077, 1085, 1085, 1099, 1081>>,
      <<1077, 1076, 1080, 1085, 1089, 1090, 1074, 1077, 1085, 1085, 1086>>,
      <<1072, 1073, 1089, 1086, 1083, 1102, 1090, 1085, 1086>>,
      <<1085, 1077, 1087, 1088, 1077, 1083, 1086, 1078, 1085, 1099, 1081>>,
      <<1085, 1077, 1086, 1089, 1087, 1086, 1088, 1080, 1084, 1086>> }

REQUIRED_BLIND_SPOTS ==
    [chaos |-> "in principle undecidable (Chaos)",
     self_reference |-> "the system cannot fully know itself",
     qualia |-> "the phenomenal experience of another consciousness",
     phi_boundary |-> "the border between human and artificial consciousness"]

Passed == "returns"
Raised == "OntologicalLimitError"

\* check_entity_count raising from the limit on (>= for >)
check_entity_count_geq(count) ==
    IF count >= MAX_ENTITIES THEN Raised ELSE Passed

check_entity_count(count) ==
    IF count > MAX_ENTITIES THEN Raised ELSE Passed

check_recursion_depth(depth) ==
    IF depth > MAX_RECURSION_DEPTH THEN Raised ELSE Passed

check_analysis_depth(depth) ==
    IF depth > MAX_ANALYSIS_DEPTH THEN Raised ELSE Passed

check_phi_calls(calls) ==
    IF calls > MAX_PHI_CALLS_PER_EXPRESSION THEN Raised ELSE Passed

\* A text argument: absent (None) or a str.
NoText == [present |-> FALSE, chars |-> <<>>]
Text(chars) == [present |-> TRUE, chars |-> chars]

\* validate_no_absolutism comparing the words as written (lower() left out)
validate_no_absolutism_cased(text) ==
    IF ~text.present \/ text.chars = <<>> THEN Passed
    ELSE IF ABSOLUTISM_KEYWORDS \cap Range(Split(text.chars)) # {}
         THEN Raised ELSE Passed

validate_no_absolutism(text) ==
    IF ~text.present \/ text.chars = <<>> THEN Passed
    ELSE LET words == Range(Split(Lower(text.chars)))
         IN  IF ABSOLUTISM_KEYWORDS \cap words # {} THEN Raised ELSE Passed

\* ensure_required_blind_spots with the set difference the wrong way round
ensure_required_blind_spots_swapped(keys) ==
    IF keys \ DOMAIN REQUIRED_BLIND_SPOTS # {} THEN Raised ELSE Passed

\* ensure_required_blind_spots(current_blind_spots), given the dict's keys
ensure_required_blind_spots(keys) ==
    LET missing == DOMAIN REQUIRED_BLIND_SPOTS \ keys
    IN  IF missing # {} THEN Raised ELSE Passed

\* The inputs the model draws.
\* How far below zero and beyond its limit a checked number goes.
MaxBeyond == 2
\* The number of pieces a text is put together from.
MaxPieces == 3

\* "vsegda", "VSEGDA", "Vsegda", "inogda", "navsegda", "vsegda,", "Neosporimo",
\* "Eto", then a space, a tab, a no-break space and a full stop
TextPieces ==
    { <<1074, 1089, 1077, 1075, 1076, 1072>>,
      <<1042, 1057, 1045, 1043, 1044, 1040>>,
      <<1042, 1089, 1077, 1075, 1076, 1072>>,
      <<1080, 1085, 1086, 1075, 1076, 1072>>,
      <<1085, 1072, 1074, 1089, 1077, 1075, 1076, 1072>>,
      <<1074, 1089, 1077, 1075, 1076, 1072, 44>>,
      <<1053, 1077, 1086, 1089, 1087, 1086, 1088, 1080, 1084, 1086>>,
      <<1069, 1090, 1086>>,
      <<32>>, <<9>>, <<160>>, <<46>> }

RECURSIVE Concat(_)
Concat(ss) == IF ss = <<>> THEN <<>> ELSE Head(ss) \o Concat(Tail(ss))

Texts ==
    {NoText} \cup
    {Text(Concat(ps)) : ps \in UNION {[1..k -> TextPieces] : k \in 0..MaxPieces}}

BlindSpotKeys == {"chaos", "self_reference", "qualia", "phi_boundary",
                  "observer", "language"}

\* A call not yet made: the argument is drawn, the outcome is open.
NoCall == [op |-> "none", kind |-> "none", arg |-> 0, outcome |-> "none"]

Numbers == (0 - MaxBeyond)..(MAX_ENTITIES + MaxBeyond)

CheckEntityCount ==
    /\ axcall.op = "none" /\ axcall.kind = "number"
    /\ axcall' = [axcall EXCEPT !.op = "check_entity_count",
                                !.outcome = check_entity_count(axcall.arg)]
    /\ UNCHANGED <<relVars, evVars, ctxVars, expVars, demoVars, metaVars>>

CheckRecursionDepth ==
    /\ axcall.op = "none" /\ axcall.kind = "number"
    /\ axcall' = [axcall EXCEPT !.op = "check_recursion_depth",
                                !.outcome = check_recursion_depth(axcall.arg)]
    /\ UNCHANGED <<relVars, evVars, ctxVars, expVars, demoVars, metaVars>>

CheckAnalysisDepth ==
    /\ axcall.op = "none" /\ axcall.kind = "number"
    /\ axcall' = [axcall EXCEPT !.op = "check_analysis_depth",
                                !.outcome = check_analysis_depth(axcall.arg)]
    /\ UNCHANGED <<relVars, evVars, ctxVars, expVars, demoVars, metaVars>>

CheckPhiCalls ==
    /\ axcall.op = "none" /\ axcall.kind = "number"
    /\ axcall' = [axcall EXCEPT !.op = "check_phi_calls",
                                !.outcome = check_phi_calls(axcall.arg)]
    /\ UNCHANGED <<relVars, evVars, ctxVars, expVars, demoVars, metaVars>>

ValidateNoAbsolutism ==
    /\ axcall.op = "none" /\ axcall.kind = "text"
    /\ axcall' = [axcall EXCEPT !.op = "validate_no_absolutism",
                                !.outcome = validate_no_absolutism(axcall.arg)]
    /\ UNCHANGED <<relVars, evVars, ctxVars, expVars, demoVars, metaVars>>

EnsureRequiredBlindSpots ==
    /\ axcall.op = "none" /\ axcall.kind = "keys"
    /\ axcall' = [axcall EXCEPT !.op = "ensure_required_blind_spots",
                                !.outcome = ensure_required_blind_spots(axcall.arg)]
    /\ UNCHANGED <<relVars, evVars, ctxVars, expVars, demoVars, metaVars>>

NextAx ==
    \/ CheckEntityCount
    \/ CheckRecursionDepth
    \/ CheckAnalysisDepth
    \/ CheckPhiCalls
    \/ ValidateNoAbsolutism
    \/ EnsureRequiredBlindSpots

----------------------------------------------------------------------------
(* OntologicalEvent (core/event.py)                                        *)

\* The most tensions an event resolves or creates.
MaxTensions == 3

\* significance_score without the floor at 0.0 (max(0.0, ...) left out)
significance_score_unfloored(ev) ==
    FMin(Float_1_0,
         FAdd(FAdd(FAdd(FMul(FAbs(FSub(ev.coherence_after, ev.coherence_before)),
                             Float_0_4),
                        IF ev.phi_meta # <<>> THEN Float_0_2 ELSE Float_0_0),
                   FSub(FMul(FInt(ev.tensions_resolved), Float_0_2),
                        FMul(FInt(ev.tensions_created), Float_0_1))),
              IF ev.blind_spots_involved # <<>> THEN Float_0_1 ELSE Float_0_0))

\* significance_score(self)
significance_score(ev) ==
    LET coherence_change == FAbs(FSub(ev.coherence_after, ev.coherence_before))
        meta_weight == IF ev.phi_meta # <<>> THEN Float_0_2 ELSE Float_0_0
        tension_net == FSub(FMul(FInt(ev.tensions_resolved), Float_0_2),
                            FMul(FInt(ev.tensions_created), Float_0_1))
        blind_spot_weight == IF ev.blind_spots_involved # <<>> THEN Float_0_1
                             ELSE Float_0_0
        score == FMin(Float_1_0,
                      FAdd(FAdd(FAdd(FMul(coherence_change, Float_0_4),
                                     meta_weight),
                                tension_net),
                           blind_spot_weight))
    IN  FMax(Float_0_0, score)

\* The inputs the model draws.
Coherences == {Float_0_0, Float_0_2, Float(6, 10), Float_1_0}
TagLists == {<<>>, <<"x">>}
SpotLists == {<<>>, <<"chaos">>}

\* score is None until significance_score() has been called
NoScore == <<-1, 1>>

SignificanceScore ==
    /\ event.op = "none"
    /\ event' = [event EXCEPT !.op = "significance_score",
                              !.score = significance_score(event)]
    /\ UNCHANGED <<relVars, axVars, ctxVars, expVars, demoVars, metaVars>>

NextEv == SignificanceScore

----------------------------------------------------------------------------
(* The evaluation context as the encoder and the serializer read it: a     *)
(* directed graph of named entities with attribute maps and of edges with  *)
(* attribute maps (a 'relation' attribute holds the relation agent, when   *)
(* there is one), and the blind-spot map.  The graph keeps the order of    *)
(* insertion, as a graph held in dictionaries does: it yields its nodes in *)
(* the order they were added, and its edges source by source in the order  *)
(* of the nodes, the edges of one source in the order they were added.     *)

\* The number of entities "ea", "eb", ... a context holds beside the named ones.
MaxSeries == 18

\* "ea", "eb", "ec", ...
SeriesName(i) == <<101, 96 + i>>
\* "Dialog X" and "dialog x"
NamedEntities == { <<68, 105, 97, 108, 111, 103, 32, 88>>,
                   <<100, 105, 97, 108, 111, 103, 32, 120>> }
\* "chaos"
ContextBlindSpots == { <<99, 104, 97, 111, 115>> }

NoAttrs == <<>>
NoExport == [op |-> "none", ret |-> <<>>]

\* The six gesture symbols a relation type is written with.
GestureChars(type) ==
    CASE type = "Alpha"  -> <<913>>
      [] type = "Lambda" -> <<923>>
      [] type = "Sigma"  -> <<931>>
      [] type = "Omega"  -> <<937>>
      [] type = "Nabla"  -> <<8711>>
      [] type = "Phi"    -> <<934>>

HasRelation(attrs) == "relation" \in DOMAIN attrs

\* graph.nodes(): the names, as a set
NodeNames(ns) == {ns[i][1] : i \in DOMAIN ns}
\* the <<source, target>> pairs of graph.edges(), as a set
EdgePairs(es) == {<<es[i][1], es[i][2]>> : i \in DOMAIN es}
\* graph.nodes[name] and graph.edges[source, target]
NodeAttrs(ns, name) == ns[CHOOSE i \in DOMAIN ns : ns[i][1] = name][2]
EdgeAttrs(es, pair) ==
    es[CHOOSE i \in DOMAIN es : <<es[i][1], es[i][2]>> = pair][3]

----------------------------------------------------------------------------
(* FAIREncoder._extract_keywords (semantic_db/fair_encoder.py)             *)

KEYWORD_LIMIT == 20

\* "LOGOS-k" (with the Greek kappa), "ontologicheskij-cikl" (in Cyrillic),
\* "lambda-universe", "semanticdb"
BASELINE_KEYWORDS ==
    { <<76, 79, 71, 79, 83, 45, 954>>,
      <<1086, 1085, 1090, 1086, 1083, 1086, 1075, 1080, 1095, 1077, 1089, 1082,
        1080, 1081, 45, 1094, 1080, 1082, 1083>>,
      <<108, 97, 109, 98, 100, 97, 45, 117, 110, 105, 118, 101, 114, 115, 101>>,
      <<115, 101, 109, 97, 110, 116, 105, 99, 100, 98>> }

\* "svyaz'-" and "slepoe-pyatno-", in Cyrillic
RELATION_PREFIX == <<1089, 1074, 1103, 1079, 1100, 45>>
BLIND_SPOT_PREFIX == <<1089, 1083, 1077, 1087, 1086, 1077, 45, 1087, 1103, 1090,
                       1085, 1086, 45>>

\* the set the keywords are collected in, before sorting
KeywordSet(ns, es, spots) ==
    BASELINE_KEYWORDS
    \cup {ReplaceChar(Lower(ns[i][1]), 32, 45) : i \in DOMAIN ns}
    \cup {RELATION_PREFIX \o Lower(GestureChars(es[i][3].relation.type)) :
              i \in {x \in DOMAIN es : HasRelation(es[x][3])}}
    \cup {BLIND_SPOT_PREFIX \o spot : spot \in spots}

\* _extract_keywords returning the whole sorted list ([:20] left out)
_extract_keywords_untruncated(ns, es, spots) == Sorted(KeywordSet(ns, es, spots))

\* _extract_keywords(context)
_extract_keywords(ns, es, spots) ==
    LET all == Sorted(KeywordSet(ns, es, spots))
    IN  SubSeq(all, 1, IF Len(all) > KEYWORD_LIMIT THEN KEYWORD_LIMIT ELSE Len(all))

----------------------------------------------------------------------------
(* SemanticDBSerializer.to_graphml (semantic_db/serializer.py)             *)

GraphmlHeader ==
    << [el |-> "?xml"], [el |-> "graphml"],
       [el |-> "key", id |-> "label"], [el |-> "key", id |-> "type"],
       [el |-> "key", id |-> "certainty"], [el |-> "graph"] >>

GraphmlFooter == << [el |-> "/graph"], [el |-> "/graphml"] >>

\* lines 146-151: one (node, attrs) pair
NodeLines(node, attrs) ==
    << [el |-> "node", id |-> node],
       [el |-> "data", key |-> "label", value |-> node],
       [el |-> "data", key |-> "type",
        value |-> IF "type" \in DOMAIN attrs THEN attrs.type ELSE "entity"],
       [el |-> "/node"] >>

\* lines 154-160: one (source, target, edge_attrs) triple
EdgeLines(source, target, edge_attrs) ==
    << [el |-> "edge", id |-> source \o <<95>> \o target,
        source |-> source, target |-> target],
       [el |-> "data", key |-> "certainty",
        value |-> IF HasRelation(edge_attrs) THEN edge_attrs.relation.certainty
                  ELSE Float_1_0],
       [el |-> "/edge"] >>

RECURSIVE AllNodeLines(_)
AllNodeLines(ns) ==
    IF ns = <<>> THEN <<>>
    ELSE NodeLines(Head(ns)[1], Head(ns)[2]) \o AllNodeLines(Tail(ns))

RECURSIVE AllEdgeLines(_)
AllEdgeLines(es) ==
    IF es = <<>> THEN <<>>
    ELSE EdgeLines(Head(es)[1], Head(es)[2], Head(es)[3]) \o AllEdgeLines(Tail(es))

\* to_graphml writing an edge element only for an edge that has a relation
to_graphml_relations_only(ns, es) ==
    GraphmlHeader \o AllNodeLines(ns)
    \o AllEdgeLines(SelectSeq(es, LAMBDA e : HasRelation(e[3])))
    \o GraphmlFooter

\* to_graphml(self, cycle_data): the lines of the document, the nodes and
\* the edges in the order the graph yields them
to_graphml(ns, es) ==
    GraphmlHeader \o AllNodeLines(ns) \o AllEdgeLines(es) \o GraphmlFooter

----------------------------------------------------------------------------
(* Building a context, and exporting from it.                              *)

SeriesCount ==
    Cardinality({i \in 1..(MaxSeries + 1) : SeriesName(i) \in NodeNames(nodes)})

\* graph.add_node(name, **attrs): a new node goes last, a known one keeps
\* its place and takes the attributes given
AddNode(ns, name, attrs) ==
    IF name \in NodeNames(ns)
    THEN [i \in DOMAIN ns |->
             IF ns[i][1] # name THEN ns[i]
             ELSE <<name, [k \in DOMAIN ns[i][2] \cup DOMAIN attrs |->
                              IF k \in DOMAIN attrs THEN attrs[k] ELSE ns[i][2][k]]>>]
    ELSE Append(ns, <<name, attrs>>)

\* the triples of es that leave source, in the order of es
RECURSIVE EdgesFrom(_, _)
EdgesFrom(es, source) ==
    IF es = <<>> THEN <<>>
    ELSE (IF Head(es)[1] = source THEN <<Head(es)>> ELSE <<>>)
         \o EdgesFrom(Tail(es), source)

\* the edges source by source, in the order of the nodes
RECURSIVE EdgesByNode(_, _)
EdgesByNode(ns, es) ==
    IF ns = <<>> THEN <<>>
    ELSE EdgesFrom(es, Head(ns)[1]) \o EdgesByNode(Tail(ns), es)

\* the next entity of the series is created; the series is created before
\* the named entities
AddSeriesEntity ==
    /\ SeriesCount < MaxSeries
    /\ Len(nodes) = SeriesCount
    /\ nodes' = AddNode(nodes, SeriesName(SeriesCount + 1), [type |-> "entity"])
    /\ export' = NoExport
    /\ UNCHANGED <<edges, blind_spots, relVars, axVars, evVars, expVars, demoVars, metaVars>>

\* a named entity is created, by synthesis
AddEntity(name) ==
    /\ name \notin NodeNames(nodes)
    /\ nodes' = AddNode(nodes, name, [type |-> "synthesis"])
    /\ export' = NoExport
    /\ UNCHANGED <<edges, blind_spots, relVars, axVars, evVars, expVars, demoVars, metaVars>>

\* graph.add_edge(source, target, **attrs): the end points become nodes,
\* the source first, and the edge goes last among the edges of its source
AddEdge(source, target, attrs) ==
    /\ <<source, target>> \notin EdgePairs(edges)
    /\ LET withSource == IF source \in NodeNames(nodes) THEN nodes
                         ELSE Append(nodes, <<source, NoAttrs>>)
           withBoth == IF target \in NodeNames(withSource) THEN withSource
                       ELSE Append(withSource, <<target, NoAttrs>>)
       IN  /\ nodes' = withBoth
           /\ edges' = EdgesByNode(withBoth, Append(edges, <<source, target, attrs>>))
    /\ export' = NoExport
    /\ UNCHANGED <<blind_spots, relVars, axVars, evVars, expVars, demoVars, metaVars>>

\* an edge with a relation agent attached
AddRelationEdge(source, target, type, certainty) ==
    AddEdge(source, target,
            [relation |-> OntologicalRelation(Len(edges) + 1,
                              "s", "t", type, NoMeaning, certainty, Unbounded,
                              0, <<>>, <<>>, Float_0_0, TRUE, 0)])

\* an edge with no relation agent attached
AddBareEdge(source, target) == AddEdge(source, target, NoAttrs)

AddBlindSpot(spot) ==
    /\ spot \notin blind_spots
    /\ blind_spots' = blind_spots \cup {spot}
    /\ export' = NoExport
    /\ UNCHANGED <<nodes, edges, relVars, axVars, evVars, expVars, demoVars, metaVars>>

ExtractKeywords ==
    /\ export = NoExport
    /\ export' = [op |-> "_extract_keywords",
                  ret |-> _extract_keywords(nodes, edges, blind_spots)]
    /\ UNCHANGED <<nodes, edges, blind_spots, relVars, axVars, evVars, expVars, demoVars, metaVars>>

ToGraphml ==
    /\ export = NoExport
    /\ export' = [op |-> "to_graphml", ret |-> to_graphml(nodes, edges)]
    /\ UNCHANGED <<nodes, edges, blind_spots, relVars, axVars, evVars, expVars, demoVars, metaVars>>

NextCtx ==
    \/ AddSeriesEntity
    \/ \E name \in NamedEntities : AddEntity(name)
    \/ \E s \in NamedEntities : \E t \in NamedEntities \ {s} :
           \/ AddRelationEdge(s, t, "Lambda", Float_0_7)
           \/ AddRelationEdge(s, t, "Sigma", Float(56, 100))
           \/ AddBareEdge(s, t)
    \/ \E spot \in ContextBlindSpots : AddBlindSpot(spot)
    \/ ExtractKeywords
    \/ ToGraphml

----------------------------------------------------------------------------
(* SemanticDBSerializer.export_cycle and its formats                       *)
(* (semantic_db/serializer.py)                                             *)

\* The number of export_cycle calls the model follows.
MaxExports == 2

\* What a method hands back: a value, or the exception it raised.
Returns(value) == [value |-> value]
Raises(exception) == [raised |-> exception]
HasRaised(out) == "raised" \in DOMAIN out

\* str.rfind: the place of the last c in name[1..i], 0 when there is none
RECURSIVE RFind(_, _, _)
RFind(name, c, i) ==
    IF i = 0 THEN 0
    ELSE IF SubSeq(name, i, i) = c THEN i ELSE RFind(name, c, i - 1)

\* PurePath.suffix: the last dot of the name and what follows it, unless
\* that dot opens or closes the name
suffix(name) ==
    LET i == RFind(name, ".", Len(name))
    IN  IF 1 < i /\ i < Len(name) THEN SubSeq(name, i, Len(name)) ELSE ""

\* PurePath.with_suffix
with_suffix(path, new_suffix) ==
    LET old == suffix(path.name)
    IN  [path EXCEPT !.name =
            IF old = "" THEN @ \o new_suffix
            ELSE SubSeq(@, 1, Len(@) - Len(old)) \o new_suffix]

\* Path.mkdir(parents=True, exist_ok=True): the directory and those above it
mkdir_parents(ds, dir) == ds \cup {SubSeq(dir, 1, k) : k \in 0..Len(dir)}

\* Path.write_text: the file is created or replaced
write_text(fs, path, content) ==
    [p \in DOMAIN fs \cup {path} |-> IF p = path THEN content ELSE fs[p]]

\* the first of the keys that cycle_data lacks, None when it has them all
RECURSIVE MissingKey(_, _)
MissingKey(cycle_data, keys) ==
    IF keys = <<>> THEN None
    ELSE IF Head(keys) \notin DOMAIN cycle_data THEN Head(keys)
    ELSE MissingKey(cycle_data, Tail(keys))

\* to_yaml(self, cycle_data): the report is a dict display evaluated in
\* order; 'metadata' is built, then 'cycle_summary' reads three keys of
\* cycle_data and then the name cycle_of_data, which nothing binds
to_yaml(ctx, cycle_data) ==
    IF MissingKey(cycle_data, <<"cycle_id", "timestamp", "expressions_evaluated">>) # None
    THEN Raises("KeyError")
    ELSE Raises("NameError")

\* to_json_ld(self, cycle_data)
to_json_ld(ctx, cycle_data) ==
    IF MissingKey(cycle_data, <<"cycle_id", "timestamp", "final_coherence">>) # None
    THEN Raises("KeyError")
    ELSE Returns([type |-> "logos:OntologicalCycle",
                  cycleId |-> cycle_data.cycle_id,
                  dateCreated |-> cycle_data.timestamp,
                  operator |-> StrOr(ctx.operator, "anonymous"),
                  finalCoherence |-> cycle_data.final_coherence,
                  events |-> ctx.event_history,
                  phiDialogues |-> ctx.phi_dialogues,
                  blindSpots |-> ctx.blind_spots])

\* json.dumps(content, ensure_ascii=False, indent=2)
json_dumps(content) ==
    [format |-> "json-ld", ensure_ascii |-> FALSE, indent |-> 2, body |-> content]

\* to_turtle(self, cycle_data)
to_turtle(ctx, cycle_data) ==
    IF MissingKey(cycle_data, <<"cycle_id", "timestamp", "final_coherence">>) # None
    THEN Raises("KeyError")
    ELSE Returns([format |-> "turtle",
                  subject |-> cycle_data.cycle_id,
                  dateCreated |-> cycle_data.timestamp,
                  operator |-> StrOr(ctx.operator, "anonymous"),
                  finalCoherence |-> cycle_data.final_coherence,
                  hasBlindSpot |-> ctx.blind_spots])

\* export_cycle(self, cycle_data, output_path); the path is the directory
\* names leading to the file and the file's name
export_cycle(fs, ds, ctx, cycle_data, output_path) ==
    LET path == output_path
        ds1 == mkdir_parents(ds, path.dir)
        suf == suffix(path.name)
    IN  IF suf \in {".yaml", ".yml"}
        THEN LET content == to_yaml(ctx, cycle_data)
             IN  IF HasRaised(content)
                 THEN [files |-> fs, dirs |-> ds1, raised |-> content.raised]
                 ELSE [files |-> write_text(fs, path, content.value),
                       dirs |-> ds1, raised |-> None]
        ELSE IF suf \in {".json", ".jsonld"}
        THEN LET content == to_json_ld(ctx, cycle_data)
             IN  IF HasRaised(content)
                 THEN [files |-> fs, dirs |-> ds1, raised |-> content.raised]
                 ELSE [files |-> write_text(fs, path, json_dumps(content.value)),
                       dirs |-> ds1, raised |-> None]
        ELSE IF suf = ".ttl"
        THEN LET content == to_turtle(ctx, cycle_data)
             IN  IF HasRaised(content)
                 THEN [files |-> fs, dirs |-> ds1, raised |-> content.raised]
                 ELSE [files |-> write_text(fs, path, content.value),
                       dirs |-> ds1, raised |-> None]
        ELSE IF suf = ".graphml"
        THEN [files |-> write_text(fs, path,
                            [format |-> "graphml",
                             body |-> to_graphml(ctx.nodes, ctx.edges)]),
              dirs |-> ds1, raised |-> None]
        ELSE LET content == to_yaml(ctx, cycle_data)
             IN  IF HasRaised(content)
                 THEN [files |-> fs, dirs |-> ds1, raised |-> content.raised]
                 ELSE [files |-> write_text(fs, with_suffix(path, ".yaml"),
                                            content.value),
                       dirs |-> ds1, raised |-> None]

\* Line 129 of the module writes a backslash inside the expression part of
\* an f-string: an interpreter from before Python 3.12 rejects the module
\* with a SyntaxError when it is imported, a later one accepts it.
module_loads(accepts_fstring_backslash) == accepts_fstring_backslash

\* The inputs the model draws.
CompleteCycle ==
    [cycle_id |-> "c1", timestamp |-> "t0", expressions_evaluated |-> 3,
     successful_evaluations |-> 2, final_coherence |-> Float_0_8,
     phi_dialogues_count |-> 1, nigc_scores |-> <<Float(9, 10)>>]
\* without the two keys that are read with .get, and without the cycle id
CycleData ==
    { CompleteCycle,
      [k \in DOMAIN CompleteCycle \ {"successful_evaluations", "nigc_scores"}
          |-> CompleteCycle[k]],
      [k \in DOMAIN CompleteCycle \ {"cycle_id"} |-> CompleteCycle[k]] }
ExportDirs == { <<>>, <<"out", "deep">> }
ExportNames == {"c.yaml", "c.yml", "c.json", "c.jsonld", "c.ttl", "c.graphml",
                "c.txt", "c", "c.YAML", ".yaml"}
OutputPaths == [dir : ExportDirs, name : ExportNames]
Operators == {None, "tester"}

NoFiles == <<>>
\* the working directory
NoDirs == { <<>> }
NoExportCall ==
    [op |-> "none", count |-> 0, loads |-> FALSE, operator |-> None,
     cycle_data |-> <<>>, path |-> <<>>, raised |-> None, before |-> <<>>]

\* the context the serializer was constructed with
ExportContext ==
    [operator |-> expcall.operator, nodes |-> nodes, edges |-> edges,
     blind_spots |-> blind_spots, event_history |-> <<>>, phi_dialogues |-> <<>>]

\* serializer.export_cycle(cycle_data, output_path)
ExportCycle(cycle_data, output_path) ==
    /\ expcall.count < MaxExports
    /\ LET out == IF module_loads(expcall.loads)
                  THEN export_cycle(files, dirs, ExportContext, cycle_data, output_path)
                  ELSE [files |-> files, dirs |-> dirs, raised |-> "SyntaxError"]
       IN  /\ files' = out.files
           /\ dirs' = out.dirs
           /\ expcall' = [expcall EXCEPT !.op = "export_cycle", !.count = @ + 1,
                                         !.cycle_data = cycle_data,
                                         !.path = output_path,
                                         !.raised = out.raised,
                                         !.before = files]
    /\ UNCHANGED <<relVars, axVars, evVars, ctxVars, demoVars, metaVars>>

NextExp == \E cycle_data \in CycleData, output_path \in OutputPaths :
               ExportCycle(cycle_data, output_path)

----------------------------------------------------------------------------
(* The demo harness: main() of examples/test_lambda_genesis.py.  The       *)
(* lexer, parser, evaluator and validator it calls are given by what they  *)
(* hand back: a value or an exception.                                     *)

\* The longest event history an evaluation leaves behind.
MaxEvents == 2

Running == -1

NoContext == [graph |-> {}, event_history |-> <<>>, phi_dialogues |-> <<>>,
              blind_spots |-> {}, coherence |-> Float_0_0]

\* export_dir: ROOT / "semantic_db" is there.  ROOT is the directory above
\* examples/, and semantic_db is the package beside it that holds the
\* serializer, so the directory stands before main() starts.
NoDemo ==
    [pc |-> "idle", trace |-> <<>>, program |-> <<>>, evaluator |-> FALSE,
     context |-> NoContext, export_dir |-> TRUE, artifact |-> FALSE,
     exit_code |-> Running, raised |-> None]

\* [e for e in context.event_history if e.gesture == 'Omega']
RECURSIVE omega_events(_)
omega_events(history) ==
    IF history = <<>> THEN <<>>
    ELSE (IF Head(history).gesture = "Omega" THEN <<Head(history)>> ELSE <<>>)
         \o omega_events(Tail(history))

\* The values the missing modules can hand back.
Programs == { <<>>, <<"expr">> }
Histories ==
    UNION { [1..n -> {[gesture |-> "Lambda"], [gesture |-> "Omega"]}] : n \in 0..MaxEvents }
DemoContexts ==
    [graph : {{"dialog"}, {"other"}},
     event_history : Histories,
     phi_dialogues : { <<>>, <<"phi">> },
     blind_spots : { {}, {"chaos"} },
     coherence : {Float_0_2, Float_0_3, Float_1_0, Float(11, 10)}]

\* an uncaught exception ends the interpreter with status 1
Uncaught(exception, stage) ==
    [demo EXCEPT !.pc = "raised", !.raised = exception, !.exit_code = 1,
                 !.trace = Append(@, stage)]

\* assert condition, then the next statement
Assertion(condition, stage, next) ==
    demo' = IF condition
            THEN [demo EXCEPT !.pc = next, !.trace = Append(@, stage)]
            ELSE Uncaught("AssertionError", stage)

\* lines 46-53: tokenize and parse; an empty program ends the run
DemoParse(program, raises) ==
    /\ demo.pc = "parse"
    /\ demo' = IF raises THEN Uncaught("ParseError", "parse")
               ELSE IF program = <<>>
               THEN [demo EXCEPT !.pc = "exited", !.exit_code = 1,
                                 !.program = program,
                                 !.trace = Append(@, "parse")]
               ELSE [demo EXCEPT !.pc = "construct", !.program = program,
                                 !.trace = Append(@, "parse")]
    /\ UNCHANGED <<relVars, axVars, evVars, ctxVars, expVars, metaVars>>

\* lines 56-58: the evaluator is constructed and configured
DemoConstruct ==
    /\ demo.pc = "construct"
    /\ demo' = [demo EXCEPT !.pc = "evaluate", !.evaluator = TRUE,
                            !.trace = Append(@, "construct")]
    /\ UNCHANGED <<relVars, axVars, evVars, ctxVars, expVars, metaVars>>

\* lines 62-68: eval_program returns, leaving a context, or raises
DemoEvaluate(context, raises) ==
    /\ demo.pc = "evaluate"
    /\ demo' = IF raises THEN Uncaught("OntologicalLimitError", "evaluate")
               ELSE [demo EXCEPT !.pc = "validate", !.context = context,
                                 !.trace = Append(@, "evaluate")]
    /\ UNCHANGED <<relVars, axVars, evVars, ctxVars, expVars, metaVars>>

\* DemoValidate going on to the export whatever validate_cycle did
DemoValidate_swallowed(raises) ==
    /\ demo.pc = "validate"
    /\ demo' = [demo EXCEPT !.pc = "export",
                            !.trace = Append(@, IF raises THEN "validate failed"
                                                ELSE "validate")]
    /\ UNCHANGED <<relVars, axVars, evVars, ctxVars, expVars, metaVars>>

\* lines 71-73: validate_cycle returns or raises
DemoValidate(raises) ==
    /\ demo.pc = "validate"
    /\ demo' = IF raises THEN Uncaught("ValidationError", "validate failed")
               ELSE [demo EXCEPT !.pc = "export", !.trace = Append(@, "validate")]
    /\ UNCHANGED <<relVars, axVars, evVars, ctxVars, expVars, metaVars>>

\* lines 76-81: mkdir(exist_ok=True) finds the directory or makes it, then
\* evaluator.semantic_db.export_cycle is called.  The evaluator is not among the sources: its exporter writes
\* the artefact, as the harness expects of it, or raises, as
\* SemanticDBSerializer.export_cycle does when asked for a .yaml file.
DemoExport(raises) ==
    /\ demo.pc = "export"
    /\ demo' = IF raises
               THEN [Uncaught("NameError", "export") EXCEPT !.export_dir = TRUE]
               ELSE [demo EXCEPT !.pc = "check_dialog", !.export_dir = TRUE,
                                 !.artifact = TRUE,
                                 !.trace = Append(@, "export")]
    /\ UNCHANGED <<relVars, axVars, evVars, ctxVars, expVars, metaVars>>

\* line 88
DemoCheckDialog ==
    /\ demo.pc = "check_dialog"
    /\ Assertion("dialog" \in demo.context.graph, "check_dialog", "check_omega")
    /\ UNCHANGED <<relVars, axVars, evVars, ctxVars, expVars, metaVars>>

\* lines 92-94: a list is true when it is not empty
DemoCheckOmega ==
    /\ demo.pc = "check_omega"
    /\ Assertion(omega_events(demo.context.event_history) # <<>>,
                 "check_omega", "check_phi")
    /\ UNCHANGED <<relVars, axVars, evVars, ctxVars, expVars, metaVars>>

\* line 97
DemoCheckPhi ==
    /\ demo.pc = "check_phi"
    /\ Assertion(demo.context.phi_dialogues # <<>>, "check_phi", "check_blind_spots")
    /\ UNCHANGED <<relVars, axVars, evVars, ctxVars, expVars, metaVars>>

\* line 101
DemoCheckBlindSpots ==
    /\ demo.pc = "check_blind_spots"
    /\ Assertion(demo.context.blind_spots # {}, "check_blind_spots", "check_coherence")
    /\ UNCHANGED <<relVars, axVars, evVars, ctxVars, expVars, metaVars>>

\* lines 105-110: the last assertion, then the confirmation and the return
DemoCheckCoherence ==
    /\ demo.pc = "check_coherence"
    /\ LET coherence == demo.context.coherence
       IN  demo' = IF ~FLess(coherence, Float_0_3) /\ ~FLess(Float_1_0, coherence)
                   THEN [demo EXCEPT !.pc = "passed", !.exit_code = 0,
                                     !.trace = Append(@, "check_coherence")]
                   ELSE Uncaught("AssertionError", "check_coherence")
    /\ UNCHANGED <<relVars, axVars, evVars, ctxVars, expVars, metaVars>>

NextDemo ==
    \/ \E program \in Programs, raises \in BOOLEAN : DemoParse(program, raises)
    \/ DemoConstruct
    \/ \E context \in DemoContexts, raises \in BOOLEAN : DemoEvaluate(context, raises)
    \/ \E raises \in BOOLEAN : DemoValidate(raises)
    \/ \E raises \in BOOLEAN : DemoExport(raises)
    \/ DemoCheckDialog
    \/ DemoCheckOmega
    \/ DemoCheckPhi
    \/ DemoCheckBlindSpots
    \/ DemoCheckCoherence

----------------------------------------------------------------------------
(* OntologicalAxioms.get_default_fair_care_metadata (core/axiom.py).  A    *)
(* dict holds references: the list and the dict nested in the template are *)
(* objects of their own, kept in the heap under an address.                *)

\* The number of metadata blocks handed out, and of changes callers make.
MaxBlocks == 2
MaxMutations == 2

Ref(address) == [ref |-> address]
Val(value) == [val |-> value]
IsRef(slot) == "ref" \in DOMAIN slot

\* the objects nested in DEFAULT_FAIR_CARE_METADATA, as the class body
\* leaves them
DefaultHeap ==
    [community_standards |-> <<"FAIR", "CARE", "Lambda-Protocol 6.0">>,
     provenance |-> [generated_by |-> "LOGOS-k v1.0",
                     derived_from |-> <<"Lambda-Universe appendices I-XXVI">>]]

\* the class attribute: each key holds a value or refers to a nested object
DEFAULT_FAIR_CARE_METADATA ==
    [creator |-> Val("LOGOS-k System"),
     created |-> Val(0),
     license |-> Val("CC BY-NC-SA 4.0"),
     format_standard |-> Val("JSON-LD"),
     vocabulary |-> Val("schema.org"),
     access_protocol |-> Val("REST API + GraphQL"),
     authentication |-> Val("open"),
     community_standards |-> Ref("community_standards"),
     provenance |-> Ref("provenance"),
     collective_benefit_statement |-> Val("collective understanding")]

\* dict.copy(): a new dict with the same keys, holding the same references
dict_copy(d) == [k \in DOMAIN d |-> d[k]]

\* get_default_fair_care_metadata(cls), called at time t
get_default_fair_care_metadata(t) ==
    LET meta == dict_copy(DEFAULT_FAIR_CARE_METADATA)
    IN  [meta EXCEPT !.created = Val(t)]

\* what a dict reads as: every reference replaced by the object it names
Contents(d, h) == [k \in DOMAIN d |-> IF IsRef(d[k]) THEN h[d[k].ref] ELSE d[k].val]

NoMetaCall == [op |-> "none", block |-> 0, mutations |-> 0]

\* meta = OntologicalAxioms.get_default_fair_care_metadata()
GetDefaultFairCareMetadata ==
    /\ Len(blocks) < MaxBlocks
    /\ blocks' = Append(blocks, get_default_fair_care_metadata(Len(blocks) + 1))
    /\ metacall' = [metacall EXCEPT !.op = "get_default_fair_care_metadata",
                                    !.block = Len(blocks) + 1]
    /\ UNCHANGED <<heap, relVars, axVars, evVars, ctxVars, expVars, demoVars>>

\* a caller's meta[key] = value: the key of that dict is bound anew
SetItem(b, key, value) ==
    /\ metacall.mutations < MaxMutations
    /\ blocks' = [blocks EXCEPT ![b][key] = Val(value)]
    /\ metacall' = [op |-> "setitem", block |-> b,
                    mutations |-> metacall.mutations + 1]
    /\ UNCHANGED <<heap, relVars, axVars, evVars, ctxVars, expVars, demoVars>>

\* a caller's meta["community_standards"].append(standard)
AppendStandard(b, standard) ==
    /\ metacall.mutations < MaxMutations
    /\ LET slot == blocks[b].community_standards
       IN  IF IsRef(slot)
           THEN /\ heap' = [heap EXCEPT ![slot.ref] = Append(@, standard)]
                /\ UNCHANGED blocks
           ELSE /\ blocks' = [blocks EXCEPT ![b].community_standards =
                                  Val(Append(slot.val, standard))]
                /\ UNCHANGED heap
    /\ metacall' = [op |-> "append", block |-> b,
                    mutations |-> metacall.mutations + 1]
    /\ UNCHANGED <<relVars, axVars, evVars, ctxVars, expVars, demoVars>>

\* a caller's meta["provenance"]["generated_by"] = value
SetProvenance(b, value) ==
    /\ metacall.mutations < MaxMutations
    /\ LET slot == blocks[b].provenance
       IN  IF IsRef(slot)
           THEN /\ heap' = [heap EXCEPT ![slot.ref].generated_by = value]
                /\ UNCHANGED blocks
           ELSE /\ blocks' = [blocks EXCEPT ![b].provenance =
                                  Val([slot.val EXCEPT !.generated_by = value])]
                /\ UNCHANGED heap
    /\ metacall' = [op |-> "setitem nested", block |-> b,
                    mutations |-> metacall.mutations + 1]
    /\ UNCHANGED <<relVars, axVars, evVars, ctxVars, expVars, demoVars>>

NextMeta ==
    \/ GetDefaultFairCareMetadata
    \/ \E b \in 1..Len(blocks) : SetItem(b, "license", "CC0")
    \/ \E b \in 1..Len(blocks) : SetItem(b, "community_standards", <<"mine">>)
    \/ \E b \in 1..Len(blocks) : AppendStandard(b, "caller's standard")
    \/ \E b \in 1..Len(blocks), value \in {"caller", "other caller"} :
           SetProvenance(b, value)

----------------------------------------------------------------------------
(* Specifications: each one drives one component and holds the others at   *)
(* rest.                                                                   *)

NoEvent == [op |-> "none", score |-> NoScore]

InitRelations ==
    /\ files = NoFiles /\ dirs = NoDirs /\ expcall = NoExportCall
    /\ demo = NoDemo
    /\ heap = DefaultHeap /\ blocks = <<>> /\ metacall = NoMetaCall
    /\ now = 0
    /\ result = NoResult
    /\ axcall = NoCall
    /\ event = NoEvent
    /\ nodes = <<>> /\ edges = <<>> /\ blind_spots = {} /\ export = NoExport
    /\ \E made \in Constructed, spots \in InitialBlindSpots :
          rels = <<OntologicalRelation(1, "a", "b", "Lambda", NoMeaning,
                                       made[1], made[3], made[5], <<>>, spots,
                                       made[2], made[4], 0)>>

InitAxioms ==
    /\ files = NoFiles /\ dirs = NoDirs /\ expcall = NoExportCall
    /\ demo = NoDemo
    /\ heap = DefaultHeap /\ blocks = <<>> /\ metacall = NoMetaCall
    /\ rels = <<>> /\ now = 0 /\ result = NoResult
    /\ event = NoEvent
    /\ nodes = <<>> /\ edges = <<>> /\ blind_spots = {} /\ export = NoExport
    /\ \/ \E n \in Numbers : axcall = [NoCall EXCEPT !.kind = "number", !.arg = n]
       \/ \E text \in Texts : axcall = [NoCall EXCEPT !.kind = "text", !.arg = text]
       \/ \E keys \in SUBSET BlindSpotKeys :
              axcall = [NoCall EXCEPT !.kind = "keys", !.arg = keys]

SpecRel == InitRelations /\ [][NextRel]_vars

InitEvents ==
    /\ files = NoFiles /\ dirs = NoDirs /\ expcall = NoExportCall
    /\ demo = NoDemo
    /\ heap = DefaultHeap /\ blocks = <<>> /\ metacall = NoMetaCall
    /\ rels = <<>> /\ now = 0 /\ result = NoResult
    /\ axcall = NoCall
    /\ nodes = <<>> /\ edges = <<>> /\ blind_spots = {} /\ export = NoExport
    /\ \E before \in Coherences, after \in Coherences, tags \in TagLists,
          spots \in SpotLists, resolved \in 0..MaxTensions,
          created \in 0..MaxTensions :
          event = [op |-> "none", score |-> NoScore,
                   coherence_before |-> before, coherence_after |-> after,
                   phi_meta |-> tags, blind_spots_involved |-> spots,
                   tensions_resolved |-> resolved, tensions_created |-> created]

SpecAx == InitAxioms /\ [][NextAx]_vars

SpecEv == InitEvents /\ [][NextEv]_vars

InitContext ==
    /\ files = NoFiles /\ dirs = NoDirs /\ expcall = NoExportCall
    /\ demo = NoDemo
    /\ heap = DefaultHeap /\ blocks = <<>> /\ metacall = NoMetaCall
    /\ rels = <<>> /\ now = 0 /\ result = NoResult
    /\ axcall = NoCall
    /\ event = NoEvent
    /\ nodes = <<>> /\ edges = <<>> /\ blind_spots = {} /\ export = NoExport

SpecCtx == InitContext /\ [][NextCtx]_vars

\* a small context, an interpreter and an operator; nothing exported yet
InitExport ==
    /\ rels = <<>> /\ now = 0 /\ result = NoResult
    /\ axcall = NoCall
    /\ event = NoEvent
    /\ nodes = AddNode(<<>>, SeriesName(1), [type |-> "entity"])
    /\ edges = <<>> /\ export = NoExport
    /\ \E spots \in SUBSET ContextBlindSpots : blind_spots = spots
    /\ files = NoFiles /\ dirs = NoDirs
    /\ \E loads \in BOOLEAN, operator \in Operators :
          expcall = [NoExportCall EXCEPT !.loads = loads, !.operator = operator]
    /\ demo = NoDemo
    /\ heap = DefaultHeap /\ blocks = <<>> /\ metacall = NoMetaCall

SpecExp == InitExport /\ [][NextExp]_vars

\* the fixture has been read (lines 41-43)
InitDemo ==
    /\ rels = <<>> /\ now = 0 /\ result = NoResult
    /\ axcall = NoCall
    /\ event = NoEvent
    /\ nodes = <<>> /\ edges = <<>> /\ blind_spots = {} /\ export = NoExport
    /\ files = NoFiles /\ dirs = NoDirs /\ expcall = NoExportCall
    /\ demo = [NoDemo EXCEPT !.pc = "parse"]
    /\ heap = DefaultHeap /\ blocks = <<>> /\ metacall = NoMetaCall

SpecDemo == InitDemo /\ [][NextDemo]_vars

InitMeta ==
    /\ rels = <<>> /\ now = 0 /\ result = NoResult
    /\ axcall = NoCall
    /\ event = NoEvent
    /\ nodes = <<>> /\ edges = <<>> /\ blind_spots = {} /\ export = NoExport
    /\ files = NoFiles /\ dirs = NoDirs /\ expcall = NoExportCall
    /\ demo = NoDemo
    /\ heap = DefaultHeap /\ blocks = <<>> /\ metacall = NoMetaCall

SpecMeta == InitMeta /\ [][NextMeta]_vars

----------------------------------------------------------------------------
(* Properties of the relation agent.                                       *)

\* Numbers that are not rounded: x + y, x - y and k * x for an integer k,
\* exactly.
XAdd(x, y) == Sum(x, y)
XSub(x, y) == Sum(x, FNeg(y))
XScale(k, x) ==
    IF k = 0 \/ x.m = <<>> THEN FZero
    ELSE [neg |-> (k < 0) # x.neg, m |-> BMul(BFromInt(Abs(k)), x.m), e |-> x.e]

\* The float x is the number y / k, for an integer k > 0, as nearly as float
\* arithmetic gives it: within 2^-40, about one part in 10^12.
Near(x, k, y) ==
    CmpAbs(XSub(XScale(k, x), y),
           XScale(k, [neg |-> FALSE, m |-> <<1>>, e |-> -40])) <= 0

\* min(hi, max(lo, x)) for integers lo and hi and a number x
Clamp(lo, hi, x) ==
    IF FLess(x, FInt(lo)) THEN FInt(lo)
    ELSE IF FLess(FInt(hi), x) THEN FInt(hi) ELSE x

\* C1: activate(), and direct invocation, on a relation whose is_active is
\* false returns an error result holding the relation's identity and changes
\* nothing: activation counter, last_activated, certainty, transformation
\* history and is_active are as before (and so is every other relation).
C1_InactiveActivateIsError ==
    [][\A r \in DOMAIN rels :
        (/\ result'.op \in {"activate", "__call__"}
         /\ result'.self = r
         /\ ~rels[r].is_active)
        => /\ "error" \in DOMAIN result'.ret
           /\ "relation_id" \in DOMAIN result'.ret
           /\ result'.ret.relation_id = rels[r].id
           /\ rels'[r].activation_count = rels[r].activation_count
           /\ rels'[r].last_activated = rels[r].last_activated
           /\ rels'[r].certainty = rels[r].certainty
           /\ rels'[r].transformation_history = rels[r].transformation_history
           /\ rels'[r].is_active = rels[r].is_active
           /\ rels' = rels]_vars

\* A direct invocation of a relation that a transform had deactivated was
\* answered with the error result.
C1_Witness ==
    /\ result.op = "__call__"
    /\ "error" \in DOMAIN result.ret
    /\ ~rels[result.self].is_active
    /\ rels[result.self].transformation_history # <<>>

\* C2: transform() leaves the original inactive and returns a new active
\* successor with the same source, whose certainty is 0.8 times the
\* original's certainty at the call and whose blind-spot list is the
\* original's list with one "loss of original context" entry appended; the
\* original's certainty and blind-spot list are unchanged.
C2_TransformSuccessor ==
    [][result'.op = "transform" =>
        LET r == result'.self
            o == rels[r]
            s == result'.ret
        IN  /\ ~rels'[r].is_active
            /\ s.is_active
            /\ s.source = o.source
            /\ Len(rels') = Len(rels) + 1
            /\ rels'[Len(rels')] = s
            /\ s.id \notin {rels[i].id : i \in DOMAIN rels}
            /\ Near(s.certainty, 10, XScale(8, o.certainty))
            /\ Len(s.blind_spots) = Len(o.blind_spots) + 1
            /\ \A i \in DOMAIN o.blind_spots : s.blind_spots[i] = o.blind_spots[i]
            /\ s.blind_spots[Len(s.blind_spots)] = "loss of original context"
            /\ rels'[r].certainty = o.certainty
            /\ rels'[r].blind_spots = o.blind_spots]_vars

\* A successor was itself transformed: the second successor carries the
\* marker twice and 0.64 of the first relation's certainty.
C2_Witness ==
    /\ result.op = "transform"
    /\ Len(result.ret.meaning.chain) = 2
    /\ Near(result.ret.certainty, 1000, FInt(448))
    /\ ~rels[result.self].is_active

\* The lifespan as a divisor (1 for an unbounded one), what is left of it at
\* an age, and the activations that count.
Span(o) == IF o.lifespan = Unbounded THEN 1 ELSE o.lifespan
Left(o, age) ==
    IF o.lifespan = Unbounded THEN 1
    ELSE IF age > o.lifespan THEN 0 ELSE o.lifespan - age
Counted(o) == IF o.activation_count > 10 THEN 10 ELSE o.activation_count

\* 100 * Span(o) times the sum 0.3*age_factor + 0.2*min(1, activations/10)
\* + 0.3*certainty + 0.2*(1 - tension_level), exactly
ViabilityTimes(o, age) ==
    XAdd(XAdd(FInt(30 * Left(o, age) + 2 * Span(o) * Counted(o)),
              XScale(30 * Span(o), o.certainty)),
         XScale(20 * Span(o), XSub(Float_1_0, o.tension_level)))

\* What the claim says of the value a call returned for the relation o at an
\* age: the sum, the recommendation, and the fresh relation's 0.71.
ViabilityReturned(o, ret, age) ==
    /\ Near(ret.viability, 100 * Span(o), ViabilityTimes(o, age))
    /\ (ret.recommendation = "retain") <=> FLess(Float_0_5, ret.viability)
    /\ (ret.recommendation = "deactivate") <=> ~FLess(Float_0_5, ret.viability)
    /\ (/\ o.lifespan = Unbounded /\ o.activation_count = 0
        /\ o.certainty = Float_0_7 /\ o.tension_level = Float_0_0)
       => (/\ ret.viability = Float(71, 100)
           /\ ret.recommendation = "retain")

\* C7: check_viability() returns viability = 0.3*age_factor
\* + 0.2*min(1, activations/10) + 0.3*certainty + 0.2*(1 - tension_level),
\* age_factor being 1 for an unbounded lifespan and max(0, 1 - age/lifespan)
\* otherwise; it recommends "retain" exactly when viability > 0.5 and
\* "deactivate" otherwise; a fresh relation with unbounded lifespan, no
\* activations, certainty 0.7 and no tension yields 0.71 and "retain"; and
\* the call changes no field of any relation.
C7_Viability ==
    [][result'.op = "check_viability" =>
        LET o == rels[result'.self]
            ret == result'.ret
        IN  /\ rels' = rels
            /\ "viability" \in DOMAIN ret
            /\ ViabilityReturned(o, ret, now - o.created)]_vars

----------------------------------------------------------------------------
(* Properties of the axiom registry.                                       *)

\* C3: each of the four limit checks fails with OntologicalLimit exactly when
\* its argument strictly exceeds its limit, and otherwise returns normally:
\* check_entity_count 1000, check_recursion_depth 50, check_analysis_depth 15,
\* check_phi_calls 3; the limit itself passes and the limit plus one fails.
C3_LimitChecks ==
    LET Exactly(limit) ==
            /\ axcall.outcome \in {Passed, Raised}
            /\ (axcall.outcome = Raised) <=> (axcall.arg > limit)
            /\ (axcall.arg = limit) => (axcall.outcome = Passed)
            /\ (axcall.arg = limit + 1) => (axcall.outcome = Raised)
    IN  /\ (axcall.op = "check_entity_count") => Exactly(1000)
        /\ (axcall.op = "check_recursion_depth") => Exactly(50)
        /\ (axcall.op = "check_analysis_depth") => Exactly(15)
        /\ (axcall.op = "check_phi_calls") => Exactly(3)

\* check_entity_count(1000) returned normally.
C3_Witness ==
    /\ axcall.op = "check_entity_count"
    /\ axcall.arg = 1000
    /\ axcall.outcome = Passed

\* C4: ensure_required_blind_spots fails with OntologicalLimit if and only if
\* at least one of chaos, self_reference, qualia, phi_boundary is absent from
\* the key set; it passes for every key set holding all four, whatever else
\* it holds.
C4_RequiredBlindSpots ==
    (axcall.op = "ensure_required_blind_spots") =>
        /\ axcall.outcome \in {Passed, Raised}
        /\ (axcall.outcome = Raised) <=>
               (\E k \in {"chaos", "self_reference", "qualia", "phi_boundary"} :
                    k \notin axcall.arg)

\* A key set with all four required keys and two more passed.
C4_Witness ==
    /\ axcall.op = "ensure_required_blind_spots"
    /\ axcall.arg = {"chaos", "self_reference", "qualia", "phi_boundary",
                     "observer", "language"}
    /\ axcall.outcome = Passed

\* c is the small Cyrillic letter k or its capital
SameLetter(c, k) == c = k \/ (k \in 1072..1103 /\ c = k - 32)

\* The text holds keyword kw as a whole word: some stretch of it, bounded on
\* each side by whitespace or an end of the text, reads kw letter by letter,
\* in small letters or capitals.
HoldsWord(chars, kw) ==
    \E i \in 1..Len(chars) :
        LET j == i + Len(kw) - 1
        IN  /\ j <= Len(chars)
            /\ i = 1 \/ IsSpace(chars[i - 1])
            /\ j = Len(chars) \/ IsSpace(chars[j + 1])
            /\ \A k \in 1..Len(kw) : SameLetter(chars[i + k - 1], kw[k])

\* C5: validate_no_absolutism fails with OntologicalLimit exactly when the
\* text holds one of the absolutism keywords as a whole word, compared
\* case-insensitively over whitespace-separated tokens; a keyword that occurs
\* only inside another token is not flagged; empty or absent text passes.
C5_NoAbsolutism ==
    (axcall.op = "validate_no_absolutism") =>
        /\ axcall.outcome \in {Passed, Raised}
        /\ (axcall.outcome = Raised) <=>
               (/\ axcall.arg.present
                /\ \E kw \in ABSOLUTISM_KEYWORDS : HoldsWord(axcall.arg.chars, kw))
        /\ (~axcall.arg.present \/ axcall.arg.chars = <<>>)
               => (axcall.outcome = Passed)

\* "Eto VSEGDA" (the keyword in capitals, as the second word) was rejected.
C5_Witness ==
    /\ axcall.op = "validate_no_absolutism"
    /\ axcall.arg.chars = <<1069, 1090, 1086, 32, 1042, 1057, 1045, 1043, 1044, 1040>>
    /\ axcall.outcome = Raised

\* "navsegda" (a keyword inside a longer word) was accepted.
C5_SubstringPasses ==
    /\ axcall.op = "validate_no_absolutism"
    /\ axcall.arg.chars = <<1085, 1072, 1074, 1089, 1077, 1075, 1076, 1072>>
    /\ axcall.outcome = Passed

----------------------------------------------------------------------------
(* Properties of the event record.                                         *)

\* C6: for every event significance_score() is
\* 0.4*|coherence_after - coherence_before| + (0.2 if phi_meta is non-empty)
\* + 0.2*tensions_resolved - 0.1*tensions_created
\* + (0.1 if blind_spots_involved is non-empty), clamped to [0,1]; so it is
\* always within [0,1], also when the created tensions outweigh the rest, and
\* it is 0.66 for before 0.2, after 0.6, one tag, 1 resolved, 0 created and
\* one blind spot.
C6_Significance ==
    (event.op = "significance_score") =>
        LET a == event.coherence_after
            b == event.coherence_before
            \* ten times the unclamped value
            scaled == XAdd(XScale(4, FAbs(XSub(a, b))),
                           FInt((IF Len(event.phi_meta) > 0 THEN 2 ELSE 0)
                                + 2 * event.tensions_resolved
                                - event.tensions_created
                                + (IF Len(event.blind_spots_involved) > 0
                                   THEN 1 ELSE 0)))
            sc == event.score
        IN  /\ ~FLess(sc, Float_0_0) /\ ~FLess(Float_1_0, sc)
            /\ Near(sc, 10, Clamp(0, 10, scaled))
            /\ (/\ b = Float_0_2 /\ a = Float(6, 10)
                /\ event.phi_meta = <<"x">>
                /\ event.tensions_resolved = 1 /\ event.tensions_created = 0
                /\ event.blind_spots_involved = <<"chaos">>)
               => sc = Float(66, 100)

\* An event whose created tensions outweigh everything else scored 0.
C6_Witness ==
    /\ event.op = "significance_score"
    /\ event.tensions_created = 3
    /\ event.tensions_resolved = 0
    /\ event.coherence_after # event.coherence_before
    /\ event.score = Float_0_0

\* The event of the example scored 0.66.
C6_Example ==
    /\ event.op = "significance_score"
    /\ event.coherence_before = Float_0_2
    /\ event.coherence_after = Float(6, 10)
    /\ event.phi_meta = <<"x">> /\ event.blind_spots_involved = <<"chaos">>
    /\ event.tensions_resolved = 1 /\ event.tensions_created = 0
    /\ event.score = Float(66, 100)

----------------------------------------------------------------------------
(* Properties of the exports.                                              *)

\* The positions of the GraphML lines that open an element of a kind.
Elements(doc, kind) == {i \in DOMAIN doc : doc[i].el = kind}

RelationEdges == {e \in EdgePairs(edges) : HasRelation(EdgeAttrs(edges, e))}

\* Each entity has exactly one <node> element, and there are no others.
OneNodePerEntity(doc) ==
    /\ \A i \in Elements(doc, "node") : doc[i].id \in NodeNames(nodes)
    /\ \A n \in NodeNames(nodes) :
           Cardinality({i \in Elements(doc, "node") : doc[i].id = n}) = 1

\* Each edge of E has exactly one <edge> element, and there are no others.
OneEdgePerEdgeOf(doc, E) ==
    /\ \A i \in Elements(doc, "edge") : <<doc[i].source, doc[i].target>> \in E
    /\ \A e \in E :
           Cardinality({i \in Elements(doc, "edge") :
                            doc[i].source = e[1] /\ doc[i].target = e[2]}) = 1

\* Every <edge> element holds a certainty datum.
EdgesCarryCertainty(doc) ==
    \A i \in Elements(doc, "edge") :
        /\ i + 2 <= Len(doc)
        /\ doc[i + 1].el = "data" /\ doc[i + 1].key = "certainty"
        /\ doc[i + 2].el = "/edge"

\* C8 as claimed: the GraphML export holds exactly one <node> element per
\* graph entity and exactly one <edge> element per relation-bearing edge (no
\* <edge> for any other edge, none missing), and every <edge> element carries
\* a certainty value.
C8_EdgePerRelationEdge ==
    (export.op = "to_graphml") =>
        /\ OneNodePerEntity(export.ret)
        /\ OneEdgePerEdgeOf(export.ret, RelationEdges)
        /\ EdgesCarryCertainty(export.ret)

\* C8 as amended: the GraphML export holds exactly one <node> element per
\* graph entity and exactly one <edge> element per edge of the graph, whether
\* or not a relation agent is attached to it, and every <edge> element
\* carries a certainty value: the relation's certainty, or 1.0 for an edge
\* with no relation agent.
C8_EdgePerGraphEdge ==
    (export.op = "to_graphml") =>
        /\ OneNodePerEntity(export.ret)
        /\ OneEdgePerEdgeOf(export.ret, EdgePairs(edges))
        /\ EdgesCarryCertainty(export.ret)
        /\ \A i \in Elements(export.ret, "edge") :
               LET e == <<export.ret[i].source, export.ret[i].target>>
               IN  export.ret[i + 1].value =
                       IF e \in RelationEdges
                       THEN EdgeAttrs(edges, e).relation.certainty
                       ELSE Float_1_0

\* A graph with one relation-bearing edge and one edge without a relation
\* agent was exported, with two <edge> elements.
C8_Witness ==
    /\ export.op = "to_graphml"
    /\ Cardinality(RelationEdges) = 1
    /\ Len(edges) = 2
    /\ Cardinality(Elements(export.ret, "edge")) = 2

\* C9: for every context, whatever the number and names of its entities,
\* relation types and blind spots, the output of _extract_keywords includes
\* all four baseline keywords.
C9_BaselineKept ==
    (export.op = "_extract_keywords") =>
        \A k \in { <<76, 79, 71, 79, 83, 45, 954>>,
                   <<1086, 1085, 1090, 1086, 1083, 1086, 1075, 1080, 1095, 1077,
                     1089, 1082, 1080, 1081, 45, 1094, 1080, 1082, 1083>>,
                   <<108, 97, 109, 98, 100, 97, 45, 117, 110, 105, 118, 101, 114,
                     115, 101>>,
                   <<115, 101, 109, 97, 110, 116, 105, 99, 100, 98>> } :
            \E i \in DOMAIN export.ret : export.ret[i] = k

\* C10: for every context the output of _extract_keywords has at most 20
\* entries, no duplicates, is in ascending order, and is the first min(20, n)
\* elements of the sorted full keyword set of size n.
C10_SortedTruncated ==
    (export.op = "_extract_keywords") =>
        LET out == export.ret
            full == KeywordSet(nodes, edges, blind_spots)
            n == Cardinality(full)
        IN  /\ Len(out) <= 20
            /\ Len(out) = IF n < 20 THEN n ELSE 20
            /\ \A i \in 1..(Len(out) - 1) : StrLess(out[i], out[i + 1])
            /\ \A i, j \in DOMAIN out : (i # j) => (out[i] # out[j])
            /\ \A i \in DOMAIN out : out[i] \in full
            /\ \A k \in full :
                   (\A i \in DOMAIN out : out[i] # k)
                   => (\A i \in DOMAIN out : StrLess(out[i], k))

\* A context with more than 20 keywords, among them one for a relation type
\* and one shared by two entity names, was cut to 20.
C10_Witness ==
    /\ export.op = "_extract_keywords"
    /\ Cardinality(KeywordSet(nodes, edges, blind_spots)) > 20
    /\ Len(nodes) > Cardinality(
           {ReplaceChar(Lower(name), 32, 45) : name \in NodeNames(nodes)})
    /\ RelationEdges # {}
    /\ Len(export.ret) = 20

----------------------------------------------------------------------------
(* Properties of export_cycle.                                             *)

KnownSuffixes == {".yaml", ".yml", ".json", ".jsonld", ".ttl", ".graphml"}

\* the format the extension of a file name asks for
FormatFor(name) ==
    LET suf == suffix(name)
    IN  CASE suf \in {".json", ".jsonld"} -> "json-ld"
          [] suf = ".ttl"                 -> "turtle"
          [] suf = ".graphml"             -> "graphml"
          [] OTHER                        -> "yaml"

\* the path the document is to be found at
TargetOf(path) ==
    IF suffix(path.name) \in KnownSuffixes THEN path ELSE with_suffix(path, ".yaml")

\* fs is before with exactly the file at target written
WroteOnly(fs, before, target) ==
    /\ DOMAIN fs = DOMAIN before \cup {target}
    /\ \A p \in DOMAIN before \ {target} : fs[p] = before[p]

\* the module was loaded and the call was given a cycle with every key the
\* formats read
ExportedCycle ==
    /\ expcall.op = "export_cycle"
    /\ expcall.loads
    /\ {"cycle_id", "timestamp", "expressions_evaluated", "final_coherence",
        "phi_dialogues_count"} \subseteq DOMAIN expcall.cycle_data

\* C11: export_cycle chooses the format from the extension of the output
\* path alone: .yaml/.yml gives the YAML report, .json/.jsonld the JSON-LD
\* document, .ttl Turtle, .graphml GraphML, each written to the given path;
\* any other extension gives the YAML report, written to the path with its
\* suffix replaced by .yaml and not to the original path.  The parent
\* directory is created, and exactly one file is written.
C11_Dispatch ==
    ExportedCycle =>
        LET path == expcall.path
            target == TargetOf(path)
        IN  /\ expcall.raised = None
            /\ path.dir \in dirs
            /\ target \in DOMAIN files
            /\ files[target].format = FormatFor(path.name)
            /\ WroteOnly(files, expcall.before, target)

\* What the code does for each extension: the four formats that are not
\* YAML are written as C11 says; a call that is to produce the YAML report
\* raises NameError after making the directory and writes no file.
ExportDispatchAsCoded ==
    ExportedCycle =>
        LET path == expcall.path
        IN  /\ path.dir \in dirs
            /\ IF FormatFor(path.name) = "yaml"
               THEN /\ expcall.raised = "NameError"
                    /\ files = expcall.before
               ELSE /\ expcall.raised = None
                    /\ path \in DOMAIN files
                    /\ files[path].format = FormatFor(path.name)
                    /\ WroteOnly(files, expcall.before, path)

\* A JSON-LD, a Turtle and a GraphML export have each written their file.
ExportDispatchWitness ==
    /\ ExportedCycle
    /\ expcall.raised = None
    /\ expcall.path.dir # <<>>
    /\ Cardinality(DOMAIN files) = 2

\* the cycle_summary that the YAML report is to hold for a cycle
CycleSummaryOf(cycle_data) ==
    [cycle_id |-> cycle_data.cycle_id,
     timestamp |-> cycle_data.timestamp,
     expressions_evaluated |-> cycle_data.expressions_evaluated,
     successful_evaluations |->
         IF "successful_evaluations" \in DOMAIN cycle_data
         THEN cycle_data.successful_evaluations ELSE 0,
     final_coherence |-> cycle_data.final_coherence,
     phi_dialogues_count |-> cycle_data.phi_dialogues_count,
     nigc_scores |->
         IF "nigc_scores" \in DOMAIN cycle_data THEN cycle_data.nigc_scores ELSE <<>>]

\* C12: exporting a completed cycle to a .yaml or .yml path completes
\* normally and writes a YAML report whose cycle_summary holds the cycle id,
\* the timestamp, the count of expressions evaluated, the final coherence,
\* the count of Phi dialogues, the diagnostic scores, and the count of
\* successful evaluations of the cycle summary it was given.
C12_YamlExportCompletes ==
    (ExportedCycle /\ suffix(expcall.path.name) \in {".yaml", ".yml"}) =>
        /\ expcall.raised = None
        /\ expcall.path \in DOMAIN files
        /\ files[expcall.path].format = "yaml"
        /\ files[expcall.path].cycle_summary = CycleSummaryOf(expcall.cycle_data)

----------------------------------------------------------------------------
(* Properties of the demo harness.                                         *)

\* the place of a stage in main()
StageRank(stage) ==
    CASE stage = "parse"                          -> 1
      [] stage = "construct"                      -> 2
      [] stage = "evaluate"                       -> 3
      [] stage \in {"validate", "validate failed"} -> 4
      [] stage = "export"                         -> 5
      [] stage = "check_dialog"                   -> 6
      [] stage = "check_omega"                    -> 7
      [] stage = "check_phi"                      -> 8
      [] stage = "check_blind_spots"              -> 9
      [] stage = "check_coherence"                -> 10

Ended == demo.pc \in {"exited", "raised", "passed"}

\* what holds of the stages run so far
StagesInOrder ==
    LET tr == demo.trace
    IN  \* parse, evaluate, validate, export, assertions: each stage once,
        \* none before the one it follows
        /\ \A i \in 1..Len(tr) : StageRank(tr[i]) = i
        \* a stage that failed is the last one that ran
        /\ (demo.raised # None) => demo.pc = "raised"
        /\ \A i \in 1..Len(tr) : (tr[i] = "validate failed") => (i = Len(tr))
        \* an empty program: exit status 1, and no evaluator was constructed
        /\ (tr # <<>> /\ demo.raised = None /\ demo.program = <<>>)
               => (demo.pc = "exited" /\ demo.exit_code = 1 /\ ~demo.evaluator
                   /\ tr = <<"parse">>)
        \* export_cycle only after validate_cycle has returned
        /\ \A i \in 1..Len(tr) :
               (tr[i] = "export") => (i > 1 /\ tr[i - 1] = "validate")
        \* no artefact unless parse, evaluate and validate all went through
        /\ demo.artifact
               => (SubSeq(tr, 1, 4) = <<"parse", "construct", "evaluate", "validate">>
                   /\ demo.program # <<>>)

\* C13: in the demo harness the stages run in the order parse, evaluate,
\* validate, export, acceptance assertions, and a stage that fails prevents
\* every later one: an empty program ends the harness with status 1 before
\* an evaluator is constructed, export_cycle is called only after
\* validate_cycle has returned, and a run that fails to parse, raises in the
\* evaluation or fails validation leaves no export artefact.
C13_StagesInOrder == [][StagesInOrder' /\ (Ended => UNCHANGED demo)]_vars

\* A run was exported after its validation returned.
C13_Witness ==
    /\ demo.artifact
    /\ demo.trace = <<"parse", "construct", "evaluate", "validate", "export">>

\* A run ended with status 1 on an empty program; another ended when its
\* validation failed.
C13_EmptyProgramWitness ==
    /\ demo.program = <<>> /\ demo.exit_code = 1 /\ ~demo.evaluator

C13_FailedValidationWitness ==
    /\ demo.pc = "raised" /\ demo.raised = "ValidationError"
    /\ ~demo.artifact

\* the run went past the Omega check
OmegaCheckPassed ==
    \E i \in 1..Len(demo.trace) :
        /\ demo.trace[i] = "check_omega"
        /\ ~(i = Len(demo.trace) /\ demo.pc = "raised")

\* C14: the Omega acceptance check passes only when the event history holds
\* exactly one event whose gesture is Omega; with none, or with two or more,
\* the run does not reach the final confirmation.
C14_ExactlyOneOmega ==
    /\ OmegaCheckPassed => Len(omega_events(demo.context.event_history)) = 1
    /\ (demo.pc = "passed") => Len(omega_events(demo.context.event_history)) = 1

\* What the assertion does: it passes exactly when there is an Omega event.
OmegaCheckAsCoded ==
    /\ OmegaCheckPassed => Len(omega_events(demo.context.event_history)) >= 1
    /\ (demo.pc = "raised" /\ demo.trace # <<>>
        /\ demo.trace[Len(demo.trace)] = "check_omega")
           => omega_events(demo.context.event_history) = <<>>

\* A run with two Omega events reached the final confirmation.
OmegaTwicePassedWitness ==
    /\ demo.pc = "passed"
    /\ Len(omega_events(demo.context.event_history)) = 2

----------------------------------------------------------------------------
(* Further properties of the relation agent.                               *)

\* a call of activate, or a direct invocation, that found relation r active
Activated(r) ==
    /\ result'.op \in {"activate", "__call__"}
    /\ result'.self = r
    /\ rels[r].is_active

\* C15: activate() on an active relation adds one to the activation counter,
\* stamps last_activated, appends one entry to the transformation history
\* and leaves the earlier entries as they were, leaves the relation active,
\* and sets certainty to min(1, 0.8*c + 0.2) for the certainty c before the
\* call; the certainty in the returned result is c.
C15_ActivateOnActive ==
    [][\A r \in DOMAIN rels :
        Activated(r) =>
            LET o == rels[r]
                n == rels'[r]
                c == o.certainty
            IN  /\ n.activation_count = o.activation_count + 1
                /\ n.last_activated = now
                /\ Len(n.transformation_history) = Len(o.transformation_history) + 1
                /\ SubSeq(n.transformation_history, 1, Len(o.transformation_history))
                       = o.transformation_history
                /\ n.is_active
                \* ten times min(1, 0.8 * c + 0.2)
                /\ Near(n.certainty, 10, Clamp(0, 10, XAdd(XScale(8, c), FInt(2))))
                /\ "error" \notin DOMAIN result'.ret
                /\ result'.ret.certainty = c]_vars

\* A relation of certainty 0 was activated twice: the second result reports
\* 0.2, and the relation now holds 0.36.
C15_Witness ==
    /\ result.op = "activate"
    /\ "error" \notin DOMAIN result.ret
    /\ rels[result.self].activation_count = 2
    /\ Len(rels[result.self].transformation_history) = 2
    /\ result.ret.certainty = Float_0_2
    /\ Near(rels[result.self].certainty, 100, FInt(36))

\* C16: a successful activate() puts an omega_trigger field in its result
\* exactly when, after the certainty was recomputed in that call, the
\* relation's certainty is below 0.3 and its tension level is above 0.7.
C16_OmegaTrigger ==
    [][\A r \in DOMAIN rels :
        Activated(r) =>
            ("omega_trigger" \in DOMAIN result'.ret
             <=> (/\ FLess(rels'[r].certainty, Float_0_3)
                  /\ FLess(Float_0_7, rels'[r].tension_level)))]_vars

\* An activation of a tense relation of certainty 0 raised the trigger.
C16_Witness ==
    /\ result.op = "activate"
    /\ "omega_trigger" \in DOMAIN result.ret
    /\ rels[result.self].certainty = Float_0_2
    /\ rels[result.self].tension_level = Float_0_8

\* The next activation of that relation found certainty 0.2, below 0.3,
\* raised it to 0.36 and set no trigger.
C16_NoTriggerWitness ==
    /\ result.op = "activate"
    /\ "error" \notin DOMAIN result.ret
    /\ "omega_trigger" \notin DOMAIN result.ret
    /\ result.ret.certainty = Float_0_2
    /\ rels[result.self].tension_level = Float_0_8

\* C18: once a relation's is_active is false, no activate, direct invocation,
\* check_viability, to_logos_expression or transform makes it active again,
\* and its activation counter, last_activated and certainty stay as they are.
C18_DeactivationIsPermanent ==
    [][\A r \in DOMAIN rels :
        ~rels[r].is_active =>
            /\ ~rels'[r].is_active
            /\ rels'[r].activation_count = rels[r].activation_count
            /\ rels'[r].last_activated = rels[r].last_activated
            /\ rels'[r].certainty = rels[r].certainty]_vars

\* the entries of a history that record a transformation
Transformations(history) ==
    {i \in DOMAIN history : "transformation" \in DOMAIN history[i]}

\* A relation that had been activated and then transformed was transformed
\* once more while inactive.
C18_Witness ==
    /\ result.op = "transform"
    /\ ~rels[result.self].is_active
    /\ rels[result.self].activation_count > 0
    /\ rels[result.self].last_activated # NoTime
    /\ Cardinality(Transformations(rels[result.self].transformation_history)) = 2

\* every certainty lies in [0, 1], and from the first activation on it is
\* at least 0.2
CertaintyInRange ==
    \A r \in DOMAIN rels :
        /\ ~FLess(rels[r].certainty, Float_0_0)
        /\ ~FLess(Float_1_0, rels[r].certainty)
        /\ (rels[r].activation_count > 0) => ~FLess(rels[r].certainty, Float_0_2)

\* C19: for a relation constructed with certainty in [0, 1], after any
\* activate and transform calls its certainty and that of every successor
\* is in [0, 1]; a relation activated at least once has certainty of at
\* least 0.2; and a successful activate never lowers certainty.
C19_CertaintyStaysInRange ==
    /\ []CertaintyInRange
    /\ [][\A r \in DOMAIN rels :
            Activated(r) => ~FLess(rels'[r].certainty, rels[r].certainty)]_vars

\* The successor of a successor, at 0.448 of certainty 0.7, was activated
\* and rose to 0.5584.
C19_Witness ==
    /\ result.op = "activate"
    /\ "error" \notin DOMAIN result.ret
    /\ Len(rels[result.self].meaning.chain) = 2
    /\ Near(result.ret.certainty, 1000, FInt(448))
    /\ Near(rels[result.self].certainty, 10000, FInt(5584))

----------------------------------------------------------------------------
(* Properties of the FAIR/CARE metadata blocks.                            *)

\* the default template as a caller reads it
TemplateContents(h) == Contents(DEFAULT_FAIR_CARE_METADATA, h)

\* C17: get_default_fair_care_metadata returns a fresh copy of the default
\* template: whatever calls are made and whatever callers change in the
\* blocks they were given, the values nested under provenance and
\* community_standards included, the default template and the blocks given
\* by other calls stay as they were.
C17_FreshCopy ==
    [][/\ TemplateContents(heap') = TemplateContents(heap)
       /\ \A j \in 1..Len(blocks) :
              (j # metacall'.block)
              => Contents(blocks'[j], heap') = Contents(blocks[j], heap)]_vars

\* What the shallow copy does keep apart: the keys of a block.  Binding a
\* key of one block anew, its created stamp included, changes neither the
\* template nor another block.
MetadataKeysAreOwn ==
    [][(metacall'.op \in {"setitem", "get_default_fair_care_metadata"})
       => /\ TemplateContents(heap') = TemplateContents(heap)
          /\ \A j \in 1..Len(blocks) :
                 (j # metacall'.block)
                 => Contents(blocks'[j], heap') = Contents(blocks[j], heap)]_vars

\* A caller's change under provenance shows in the template and in the
\* block of another caller.
SharedProvenanceWitness ==
    /\ Len(blocks) = 2
    /\ metacall.op = "setitem nested"
    /\ metacall.block = 1
    /\ TemplateContents(heap).provenance.generated_by = "caller"
    /\ Contents(blocks[2], heap).provenance.generated_by = "caller"

====
